---- MODULE Spec2Model ----
(***************************************************************************)
(* Model of the AICES AI worker: the Redis-driven worker loop              *)
(* (src/worker.py), the resume and comparison job pipelines, the callback  *)
(* client (src/callback_client.py) and the score normalisation of          *)
(* src/worker/services/scorer.py.                                          *)
(*                                                                         *)
(* Conventions.                                                            *)
(*  - One action per step of the code; pc is the position of the single    *)
(*    worker thread.  An exception in flight is the variable exc; handler  *)
(*    names the innermost enclosing try block of the running function.     *)
(*  - Answers of the collaborators (Redis, the file store, the extractor,  *)
(*    Gemini, the backend) are chosen with \E when the code asks for them. *)
(*  - trace lists what the current attempt did, in order: the stages it    *)
(*    entered, the AI calls, the payloads built, the send calls and the    *)
(*    HTTP POSTs.                                                          *)
(*  - Id fields of a job (resumeId, jobId, ...), when present, hold values *)
(*    that int() accepts.                                                  *)
(*  - Scores are fixed-point numbers in hundredths (84.0 is 8400), weights *)
(*    are in thousandths (0.6 is 600); round(x, 2) is exact decimal        *)
(*    round-half-even.                                                     *)
(***************************************************************************)
EXTENDS Integers, Sequences, FiniteSets, TLC

\* ---------------------------------------------------------------- constants
MAX_RETRIES == 3
RETRY_DELAY_SECONDS == 5
JOB_QUEUE == "resume_parse_queue"
COMPARISON_QUEUE == "candidate_comparison_queue"

\* Number of queue messages a run pops.
MaxJobs == 2

\* ------------------------------------------------------------------- jobs
ID_FIELDS == {"resumeId", "applicationId", "queueJobId", "jobId", "campaignId", "companyId"}
COMPARISON_FIELDS == {"comparisonId", "queueJobId", "companyId", "campaignId", "jobId",
                      "jobTitle", "requirements", "criteria", "candidates"}

\* A job is the parsed JSON object: the keys it has and the values the code looks at.
MkJob(keys, mode, reqs, crit, title, url, pdata, n) ==
  [present |-> keys, mode |-> mode, requirements |-> reqs, criteria |-> crit,
   jobTitle |-> title, fileUrl |-> url, parsedData |-> pdata, ncand |-> n]

NoJob == MkJob({}, "parse", "empty", "empty", "none", "local", "empty", 0)

ParseKeys == ID_FIELDS \cup {"fileUrl", "requirements", "criteria", "mode"}
ScoreKeys == ID_FIELDS \cup {"parsedData", "requirements", "criteria", "mode"}

ParseJobs ==
  {MkJob(ParseKeys \cup (IF t = "none" THEN {} ELSE {"jobTitle"}), "parse", "ok", "ok", t, u, "empty", 0) :
      t \in {"none", "blank", "given"}, u \in {"url", "local"}}

ScoreJobs ==
  {MkJob(ScoreKeys \cup (IF t = "none" THEN {} ELSE {"jobTitle"}), "score", "ok", "ok", t, "local", p, 0) :
      t \in {"none", "given"}, p \in {"ok", "empty", "badjson"}}

\* Input errors: a key required for the mode is missing, or requirements /
\* criteria are missing, empty or (criteria) not a list.
InputErrorJobs ==
  {MkJob(ParseKeys \ {k}, "parse", "ok", "ok", "none", "url", "empty", 0) :
      k \in {"fileUrl", "resumeId", "requirements", "criteria"}}
  \cup {MkJob(ScoreKeys \ {"parsedData"}, "score", "ok", "ok", "none", "local", "empty", 0)}
  \cup {MkJob(ParseKeys, "parse", "empty", "ok", "none", "url", "empty", 0)}
  \cup {MkJob(ParseKeys, "parse", "ok", c, "none", "url", "empty", 0) : c \in {"empty", "notlist"}}

CandidateCounts == {1, 2, 5, 6}

ComparisonJobs ==
  {MkJob(COMPARISON_FIELDS, "parse", "ok", "ok", "given", "local", "empty", n) : n \in CandidateCounts}
  \cup {MkJob(COMPARISON_FIELDS \ {"candidates"}, "parse", "ok", "ok", "given", "local", "empty", 0)}

Jobs == ParseJobs \cup ScoreJobs \cup InputErrorJobs \cup ComparisonJobs

\* A queue message: bytes that may or may not decode, holding JSON of some kind.
RawMessages ==
  {[utf8 |-> FALSE, json |-> "invalid", obj |-> NoJob],
   [utf8 |-> TRUE, json |-> "invalid", obj |-> NoJob],
   [utf8 |-> TRUE, json |-> "array", obj |-> NoJob],
   [utf8 |-> TRUE, json |-> "scalar", obj |-> NoJob],
   [utf8 |-> TRUE, json |-> "null", obj |-> NoJob]}
  \cup {[utf8 |-> TRUE, json |-> "object", obj |-> j] : j \in Jobs}

NoMessage == [utf8 |-> FALSE, json |-> "invalid", obj |-> NoJob]

\* Only the decoding error is turned into a ValueError; text that is not JSON
\* comes back as an empty object.
ParseJobLenient(raw_job) ==
  IF ~raw_job.utf8
    THEN [raises |-> TRUE, kind |-> "none", value |-> NoJob]
    ELSE [raises |-> FALSE, kind |-> IF raw_job.json = "invalid" THEN "object" ELSE raw_job.json,
          value |-> raw_job.obj]

\* _parse_job: decode as UTF-8, then json.loads; either failure is a ValueError.
\* The value returned is whatever JSON value the text holds.
_parse_job(raw_job) ==
  IF ~raw_job.utf8 \/ raw_job.json = "invalid"
    THEN [raises |-> TRUE, kind |-> "none", value |-> NoJob]
    ELSE [raises |-> FALSE, kind |-> raw_job.json, value |-> raw_job.obj]

\* ------------------------------------------------------------ callback client
\* Methods the CallbackClient class defines.
CallbackClientMethods == {"send_ai_result", "close"}

\* Answers of the backend to a POST: a status class, or no answer at all.
Statuses == {"200", "2xx", "3xx", "4xx", "5xx", "timeout"}

\* response.raise_for_status() raises for 4xx and 5xx; a transport error raises
\* from session.post itself.
PostRaises(status) == status \in {"4xx", "5xx", "timeout"}

\* -------------------------------------------------------------------- scorer
\* Keyword parameters score_by_criteria declares (keyword-only, no **kwargs).
ScoreByCriteriaParams == {"api_key", "skills", "specialization", "employment_types"}
\* Keyword arguments _process_job passes to it.
WorkerScoreKwargs == {"api_key", "skills", "specialization", "employment_types", "languages", "level"}

\* Python's None, for a key that is absent or holds null.
NONE == -1000000

\* Truthiness of a number-or-None, and Python's "a or b".
Truthy(v) == v # NONE /\ v # 0
PyOr(a, b) == IF Truthy(a) THEN a ELSE b

Max(a, b) == IF a >= b THEN a ELSE b
Min(a, b) == IF a <= b THEN a ELSE b

\* round(num / den, ...) to the nearest integer, ties to even (Python's round).
RoundHalfEven(num, den) ==
  LET q == num \div den
      r == num % den
  IN IF 2 * r < den THEN q
     ELSE IF 2 * r > den THEN q + 1
     ELSE IF q % 2 = 0 THEN q ELSE q + 1

\* int(x) / float(x) of a JSON value given as [t |-> "int" | "str", v |-> n]:
\* the number it denotes, as an int.
PyInt(x) == [t |-> "int", v |-> x.v]
\* float(None or 0.0) and float(number)
PyFloat(v) == IF v = NONE THEN 0 ELSE v
\* str(x): the result is a str whatever x was
PyStr(x) == "str"
\* x if x is None or a str, else str(x)
PyStrOrNone(x) == IF x = "none" THEN "none" ELSE "str"

ITEM_REQUIRED_FIELDS == {"criteriaId", "matched", "AINote"}

\* _validate_ai_response_structure: TRUE when it raises AIScoringError.
_validate_ai_response_structure(result) ==
  \/ ~result.hasItems
  \/ ~result.itemsIsList
  \/ \E i \in 1..Len(result.items) :
        \/ ITEM_REQUIRED_FIELDS \ result.items[i].keys # {}
        \/ ("rawScore" \notin result.items[i].keys /\ "score" \notin result.items[i].keys)

\* criteria_weights[criteria_id], default 0.0: the dict comprehension keeps the
\* last entry of the list for an id.
RECURSIVE criteria_weights(_, _)
criteria_weights(criteria_list, criteria_id) ==
  IF criteria_list = <<>> THEN 0
  ELSE LET c == criteria_list[Len(criteria_list)]
       IN IF PyInt(c.criteriaId) = criteria_id
            THEN PyFloat(PyOr(c.weight, 0))
            ELSE criteria_weights(SubSeq(criteria_list, 1, Len(criteria_list) - 1), criteria_id)

\* raw_score = float(item.get("rawScore") or item.get("score") or 0)
RawScoreLegacyFirst(item) == PyFloat(PyOr(PyOr(item.score, item.rawScore), 0))
RawScoreOf(item) == PyFloat(PyOr(PyOr(item.rawScore, item.score), 0))

\* One item of _normalize_ai_response.
NormalizeItem(item, criteria_list) ==
  LET criteria_id == PyInt(item.criteriaId)
      raw_score == Max(0, Min(10000, RawScoreOf(item)))
      weight == criteria_weights(criteria_list, criteria_id)
  IN [keys |-> {"criteriaId", "matched", "rawScore", "score", "AINote"},
      criteriaId |-> criteria_id,
      matched |-> PyFloat(item.matched),
      rawScore |-> raw_score,
      score |-> RoundHalfEven(raw_score * weight, 1000),
      AINote |-> PyStr(item.AINote)]

\* _normalize_ai_response: the items, each normalised, in order.
_normalize_ai_response(result, criteria_list) ==
  [result EXCEPT !.AIExplanation = PyStr(result.AIExplanation),
                 !.items = [i \in 1..Len(result.items) |-> NormalizeItem(result.items[i], criteria_list)],
                 !.matchSkills = PyStrOrNone(result.matchSkills),
                 !.missingSkills = PyStrOrNone(result.missingSkills)]

RECURSIVE SumScores(_)
SumScores(items) ==
  IF items = <<>> THEN 0 ELSE PyFloat(items[1].score) + SumScores(Tail(items))

\* The sum returned as it is, without max(0.0, min(100.0, total)).
TotalUnclamped(items) == RoundHalfEven(SumScores(items), 1)

\* _calculate_weighted_total_score: the sum of the items' scores, clamped to
\* [0, 100] and rounded to two decimals.
_calculate_weighted_total_score(items) ==
  RoundHalfEven(Max(0, Min(10000, SumScores(items))), 1)

\* ------------------------------------------------------------------ state
VARIABLES
  pc,          \* position of the worker thread
  handled,     \* messages popped so far
  queue_name,  \* queue the current message came from
  raw_job,     \* the current message
  job,         \* the parsed job
  attempt,     \* loop variable of the retry loop (0: no job in the loop)
  exc,         \* exception in flight ("none": none)
  handler,     \* innermost try block of the running function
  trace,       \* what the current attempt has done so far
  doc,         \* extracted text and parsed resume of the current attempt
  pending,     \* payload handed to the callback client
  results,     \* how each finished attempt of the current job ended
  sent,        \* payloads of the sends that returned normally, current job
  sleeps,      \* backoff sleeps of the current job, in seconds
  logs,        \* log records written for the current message
  tmpLive,     \* the temporary file of the current attempt exists
  leaked,      \* a temporary file of a finished attempt still exists
  clientOpen,  \* callback client session is open
  redisOpen,   \* Redis connection is open
  hasKey,      \* settings.gemini_api_key is non-empty
  nIn, nCriteria, nOut, nOut2, nPc,  \* direct call of a service: the AI's response,
                                     \* the caller's arguments, results, position
  progress_lock,   \* app.py: who holds progress_lock ("free": nobody)
  batch_progress,  \* app.py: the shared progress record
  bgPc,            \* position of each background thread
  file_paths,      \* files each background thread still has to process
  genPc,           \* position of the generator of /batch_progress
  last_completed,  \* the generator's local last_completed
  served           \* /batch_results responses served

workerVars == <<pc, handled, queue_name, raw_job, job, attempt, exc, handler, trace, doc,
                pending, results, sent, sleeps, logs, tmpLive, leaked, clientOpen,
                redisOpen, hasKey>>
scorerVars == <<nIn, nCriteria, nOut, nOut2, nPc>>
appVars == <<progress_lock, batch_progress, bgPc, file_paths, genPc, last_completed, served>>
vars == <<workerVars, scorerVars, appVars>>

NoDoc == [textLen |-> 0, count |-> 0, basic |-> FALSE, titles |-> FALSE]
NoPayload == [method |-> "none", kind |-> "none", error |-> "none", rawJson |-> FALSE]
NoResult == [text |-> "json", hasItems |-> FALSE, itemsIsList |-> FALSE, items |-> <<>>, AIExplanation |-> "str",
             matchSkills |-> "none", missingSkills |-> "none", total_score |-> NONE]

ScorerIdle ==
  /\ nIn = NoResult /\ nCriteria = <<>> /\ nOut = NoResult /\ nOut2 = NoResult /\ nPc = "idle"

\* app.py as imported: the progress record idle, the lock free, no batch
\* submitted and no client connected.
IdleProgress == [total |-> 0, completed |-> 0, results |-> 0, status |-> "idle"]

\* Most batches submitted in one run; each starts one background thread.
MaxBatches == 2
Threads == 1..MaxBatches

AppIdle ==
  /\ progress_lock = "free" /\ batch_progress = IdleProgress
  /\ bgPc = [t \in Threads |-> "not_started"]
  /\ file_paths = [t \in Threads |-> 0]
  /\ genPc = "not_connected"
  /\ last_completed = -1 /\ served = 0

\* State when worker_loop enters its while loop: settings loaded, Redis
\* connected, callback client built, signal handlers installed.
Init ==
  /\ pc = "blpop" /\ handled = 0
  /\ queue_name = JOB_QUEUE /\ raw_job = NoMessage /\ job = NoJob
  /\ attempt = 0 /\ exc = "none" /\ handler = "none"
  /\ trace = <<>> /\ doc = NoDoc /\ pending = NoPayload
  /\ results = <<>> /\ sent = <<>> /\ sleeps = <<>> /\ logs = {}
  /\ tmpLive = FALSE /\ leaked = FALSE
  /\ clientOpen = TRUE /\ redisOpen = TRUE
  /\ hasKey \in BOOLEAN
  /\ ScorerIdle
  /\ AppIdle

\* ------------------------------------------------------------- worker_loop
\* A loop that also pops the next message while it sleeps between retries.
AtBlpopOrSleeping == pc \in {"blpop", "sleep"}

\* The thread is at the blpop call at the top of "while True".
AtBlpop == pc = "blpop"

\* redis_conn.blpop([JOB_QUEUE, COMPARISON_QUEUE]) returns a message.
Dequeue ==
  /\ AtBlpop /\ handled < MaxJobs
  /\ \E q \in {JOB_QUEUE, COMPARISON_QUEUE}, m \in RawMessages :
        /\ queue_name' = q
        /\ raw_job' = m
  /\ handled' = handled + 1
  /\ pc' = "parse_job"
  /\ job' = NoJob /\ attempt' = 0 /\ exc' = "none" /\ handler' = "none"
  /\ trace' = <<>> /\ doc' = NoDoc /\ pending' = NoPayload
  /\ results' = <<>> /\ sent' = <<>> /\ sleeps' = <<>> /\ logs' = {}
  /\ UNCHANGED <<tmpLive, leaked, clientOpen, redisOpen, hasKey, scorerVars, appVars>>

\* blpop raises: log, then time.sleep(RETRY_DELAY_SECONDS).
DequeueFail ==
  /\ pc = "blpop"
  /\ pc' = "blpop_sleep"
  /\ logs' = logs \cup {"blpop_failed"}
  /\ UNCHANGED <<handled, queue_name, raw_job, job, attempt, exc, handler, trace, doc, pending,
                 results, sent, sleeps, tmpLive, leaked, clientOpen, redisOpen, hasKey, scorerVars, appVars>>

\* ... and continue.
DequeueRetry ==
  /\ pc = "blpop_sleep"
  /\ pc' = "blpop"
  /\ UNCHANGED <<handled, queue_name, raw_job, job, attempt, exc, handler, trace, doc, pending,
                 results, sent, sleeps, logs, tmpLive, leaked, clientOpen, redisOpen, hasKey,
                 scorerVars, appVars>>

\* job = _parse_job(raw_job); logger.info(..., job.get("queueJobId")) under
\* "except ValueError": a ValueError drops the message; job.get on a JSON value
\* that is not an object raises AttributeError, which nothing catches.
ParseStep ==
  /\ pc = "parse_job"
  /\ LET r == _parse_job(raw_job)
     IN IF r.raises
          THEN /\ logs' = logs \cup {"dropping_invalid"}
               /\ pc' = "blpop"
               /\ UNCHANGED <<job, attempt, exc>>
          ELSE IF r.kind # "object"
            THEN /\ exc' = "AttributeError"
                 /\ pc' = "crashed"
                 /\ UNCHANGED <<job, attempt, logs>>
            ELSE /\ job' = r.value
                 /\ attempt' = 1
                 /\ logs' = logs \cup {"dequeued"}
                 /\ pc' = "dispatch"
                 /\ UNCHANGED exc
  /\ UNCHANGED <<handled, queue_name, raw_job, handler, trace, doc, pending, results, sent,
                 sleeps, tmpLive, leaked, clientOpen, redisOpen, hasKey, scorerVars, appVars>>

\* Top of the try block of one iteration: route by queue name.
Dispatch ==
  /\ pc = "dispatch"
  /\ pc' = IF queue_name = COMPARISON_QUEUE THEN "cj_fields" ELSE "pj_fields"
  /\ exc' = "none" /\ handler' = "none"
  /\ trace' = <<>> /\ doc' = NoDoc /\ pending' = NoPayload
  /\ UNCHANGED <<handled, queue_name, raw_job, job, attempt, results, sent, sleeps, logs,
                 tmpLive, leaked, clientOpen, redisOpen, hasKey, scorerVars, appVars>>

\* "break" after the processing function returned.
BreaksNever(e) == FALSE
BreaksLoop(e) == e = "none"
\* "if attempt >= MAX_RETRIES" in the except branch.
GivesUpLate(n) == n > MAX_RETRIES
GivesUp(n) == n >= MAX_RETRIES
\* range(1, MAX_RETRIES + 1) has a value after n.
RangeOneMore(n) == n + 1 < MAX_RETRIES + 2
RangeHasNext(n) == n + 1 < MAX_RETRIES + 1

\* The processing function returned or raised into the loop's try/except.
AttemptEnd ==
  /\ pc = "attempt_end"
  /\ results' = Append(results, IF exc = "none" THEN "returned" ELSE "raised")
  /\ IF BreaksLoop(exc)
       THEN /\ pc' = "blpop"
            /\ attempt' = 0
            /\ UNCHANGED logs
       ELSE IF exc = "none"
         THEN /\ pc' = "loop_next"
              /\ UNCHANGED <<logs, attempt>>
         ELSE IF GivesUp(attempt)
           THEN /\ logs' = logs \cup {"failed_attempt", "giving_up"}
                /\ pc' = "loop_next"
                /\ UNCHANGED attempt
           ELSE /\ logs' = logs \cup {"failed_attempt"}
                /\ pc' = "sleep"
                /\ UNCHANGED attempt
  /\ exc' = "none"
  /\ UNCHANGED <<handled, queue_name, raw_job, job, handler, trace, doc, pending, sent, sleeps,
                 tmpLive, leaked, clientOpen, redisOpen, hasKey, scorerVars, appVars>>

\* A backoff that waits the base delay after every failed attempt.
RetryDelayFlat(n) == RETRY_DELAY_SECONDS + 0 * n

\* Line 1215: the argument of time.sleep after failed attempt n.
RetryDelay(n) == RETRY_DELAY_SECONDS * n

\* time.sleep(RETRY_DELAY_SECONDS * attempt)
Sleep ==
  /\ pc = "sleep"
  /\ sleeps' = Append(sleeps, RetryDelay(attempt))
  /\ pc' = "loop_next"
  /\ UNCHANGED <<handled, queue_name, raw_job, job, attempt, exc, handler, trace, doc, pending,
                 results, sent, logs, tmpLive, leaked, clientOpen, redisOpen, hasKey, scorerVars, appVars>>

\* Next value of the for loop, or the loop is exhausted and the while loop
\* goes back to blpop.
LoopNext ==
  /\ pc = "loop_next"
  /\ IF RangeHasNext(attempt)
       THEN attempt' = attempt + 1 /\ pc' = "dispatch"
       ELSE attempt' = 0 /\ pc' = "blpop"
  /\ UNCHANGED <<handled, queue_name, raw_job, job, exc, handler, trace, doc, pending, results,
                 sent, sleeps, logs, tmpLive, leaked, clientOpen, redisOpen, hasKey, scorerVars, appVars>>

\* A retry wrapper written "except BaseException" (or a bare "except:").
ExceptCatchesAll(e) == TRUE

\* "except Exception" of the retry wrapper (line 1203) matches e: SystemExit
\* derives from BaseException, not from Exception.
ExceptExceptionCatches(e) == e # "SystemExit"

\* The thread is inside the try block of a retry-loop iteration.
InTry == attempt > 0 /\ pc \notin {"attempt_end", "sleep", "loop_next"}

\* _graceful_shutdown: SIGINT / SIGTERM close the client and the connection
\* and raise SystemExit, which no "except Exception" catches; a pending
\* "finally" of _process_job still runs.
Signal ==
  /\ pc \notin {"exited", "crashed"}
  /\ clientOpen' = FALSE /\ redisOpen' = FALSE
  /\ pc' = IF InTry /\ ExceptExceptionCatches("SystemExit") THEN "attempt_end" ELSE "exited"
  /\ exc' = "SystemExit"
  /\ tmpLive' = FALSE
  /\ leaked' = (leaked \/ (tmpLive /\ handler # "finally"))
  /\ UNCHANGED <<handled, queue_name, raw_job, job, attempt, handler, trace, doc, pending,
                 results, sent, sleeps, logs, hasKey, scorerVars, appVars>>

\* ------------------------------------------------- exceptions and returns
\* An exception leaves the running function through its innermost try block.
Raise(e) ==
  /\ exc' = e
  /\ pc' = IF handler = "finally" THEN "pj_finally"
           ELSE IF handler = "except" THEN "cj_except"
           ELSE "attempt_end"

\* "return" (or falling off the end) of the processing function.
FnReturn ==
  /\ exc' = "none"
  /\ pc' = IF handler = "finally" THEN "pj_finally" ELSE "attempt_end"

AiToken(stage) ==
  CASE stage = "req_check" -> "ai:req_check"
    [] stage = "validate" -> "ai:validate"
    [] stage = "title" -> "ai:title"
    [] OTHER -> "ai"

\* Trace entries of a stage that may ask the AI.
StageTokens(stage, asksAI) == IF asksAI THEN <<stage, AiToken(stage)>> ELSE <<stage>>

\* Answers of a Gemini call that asks a yes/no question: the two answers, an
\* exception, a response without text, text that is not JSON.
AiAnswers == {"yes", "no", "error", "empty", "badjson"}

\* ------------------------------------------------------------ _process_job
\* Lines 611-664: the ValueErrors raised before any work is done.
RequiredFields(j) ==
  IF j.mode = "score" THEN ID_FIELDS \cup {"parsedData"} ELSE ID_FIELDS \cup {"fileUrl"}

InputError(j) ==
  \/ RequiredFields(j) \ j.present # {}
  \/ "requirements" \notin j.present
  \/ "criteria" \notin j.present
  \/ j.requirements = "empty"
  \/ j.criteria \in {"empty", "notlist"}

PJ_ValidateFields ==
  /\ pc = "pj_fields"
  /\ trace' = Append(trace, "validate_fields")
  /\ IF InputError(job)
       THEN /\ Raise("ValueError")
            /\ logs' = IF RequiredFields(job) \ job.present # {}
                         THEN logs ELSE logs \cup {"skipping_job"}
       ELSE /\ pc' = "pj_reqcheck"
            /\ logs' = logs \cup {"starting_job"}
            /\ UNCHANGED exc
  /\ UNCHANGED <<handled, queue_name, raw_job, job, attempt, handler, doc, pending, results,
                 sent, sleeps, tmpLive, leaked, clientOpen, redisOpen, hasKey, scorerVars, appVars>>

\* _validate_job_requirements_with_ai: every failure defaults to True.
\* A check that rejects the requirements unless the AI confirms them.
ReqCheckFailsClosed(key, answer) == key /\ answer = "yes"

_validate_job_requirements_with_ai(key, answer) == ~(key /\ answer = "no")

\* Scoring after a rejection instead of returning.
RejectionContinues(j) == "pj_score"
\* Where a domain rejection goes: the invalid payload is sent, then "return".
AfterRejection(j) == "send"

\* _send_invalid_resume_payload builds this payload.
InvalidPayload(error_type) ==
  [method |-> "send_ai_result", kind |-> "error", error |-> error_type, rawJson |-> FALSE]

\* Lines 698-711.
PJ_ReqCheck ==
  /\ pc = "pj_reqcheck"
  /\ \E answer \in (IF hasKey THEN AiAnswers ELSE {"error"}) :
        IF ~_validate_job_requirements_with_ai(hasKey, answer)
             THEN /\ trace' = trace \o StageTokens("req_check", hasKey) \o <<"build">>
                  /\ pending' = InvalidPayload("invalid_job_data")
                  /\ pc' = AfterRejection(job)
             ELSE /\ trace' = trace \o StageTokens("req_check", hasKey)
                  /\ pc' = IF job.mode = "score" THEN "pj_parsed_data" ELSE "pj_download"
                  /\ UNCHANGED pending
  /\ UNCHANGED <<handled, queue_name, raw_job, job, attempt, exc, handler, doc, results, sent,
                 sleeps, logs, tmpLive, leaked, clientOpen, redisOpen, hasKey, scorerVars, appVars>>

\* "if job_title:" after validation, in both modes.
AfterValidation(j) == IF j.jobTitle # "none" THEN "pj_title" ELSE "pj_score"

\* Lines 716-728 (mode score): parsedData must be non-empty and, when it is a
\* string, valid JSON.
PJ_ParsedData ==
  /\ pc = "pj_parsed_data"
  /\ trace' = Append(trace, "parsed_data")
  /\ IF job.parsedData # "ok"
       THEN /\ Raise("ValueError")
            /\ UNCHANGED doc
       ELSE /\ \E t \in BOOLEAN : doc' = [NoDoc EXCEPT !.titles = t]
            /\ pc' = AfterValidation(job)
            /\ UNCHANGED exc
  /\ UNCHANGED <<handled, queue_name, raw_job, job, attempt, handler, pending, results, sent,
                 sleeps, logs, tmpLive, leaked, clientOpen, redisOpen, hasKey, scorerVars, appVars>>

\* _download_file, called before the try block of _process_job.  For a URL
\* the temporary file is created (delete=False) before requests.get runs.
PJ_Download ==
  /\ pc = "pj_download"
  /\ trace' = Append(trace, "download")
  /\ \E ok \in BOOLEAN :
        IF ok
          THEN /\ tmpLive' = (job.fileUrl = "url")
               /\ handler' = "finally"
               /\ pc' = "pj_extract"
               /\ UNCHANGED <<exc, leaked>>
          ELSE /\ Raise(IF job.fileUrl = "url" THEN "RequestException" ELSE "FileNotFoundError")
               /\ leaked' = (leaked \/ job.fileUrl = "url")
               /\ UNCHANGED <<tmpLive, handler>>
  /\ UNCHANGED <<handled, queue_name, raw_job, job, attempt, doc, pending, results, sent,
                 sleeps, logs, clientOpen, redisOpen, hasKey, scorerVars, appVars>>

\* Lengths of extracted text around the validator's thresholds.
TextLens == {0, 49, 50, 200, 201}

\* extract_text_from_file
PJ_Extract ==
  /\ pc = "pj_extract"
  /\ trace' = Append(trace, "extract")
  /\ \/ /\ Raise("ExtractionError")
        /\ UNCHANGED doc
     \/ /\ \E n \in TextLens : doc' = [doc EXCEPT !.textLen = n]
        /\ pc' = "pj_parse"
        /\ UNCHANGED exc
  /\ UNCHANGED <<handled, queue_name, raw_job, job, attempt, handler, pending, results, sent,
                 sleeps, logs, tmpLive, leaked, clientOpen, redisOpen, hasKey, scorerVars, appVars>>

\* ats_extractor: get_model (outside its try) raises without a key; any
\* failure of the call or of the JSON parsing is a ResumeParsingError.
PJ_Parse ==
  /\ pc = "pj_parse"
  /\ IF ~hasKey
       THEN /\ trace' = Append(trace, "parse")
            /\ Raise("ValueError")
            /\ UNCHANGED doc
       ELSE /\ trace' = trace \o <<"parse", "ai:parse">>
            /\ \/ /\ Raise("ResumeParsingError")
                  /\ UNCHANGED doc
               \/ /\ \E c \in 0..3, b \in BOOLEAN, t \in BOOLEAN :
                        doc' = [doc EXCEPT !.count = c, !.basic = b, !.titles = t]
                  /\ pc' = "pj_looks"
                  /\ UNCHANGED exc
  /\ UNCHANGED <<handled, queue_name, raw_job, job, attempt, handler, pending, results, sent,
                 sleeps, logs, tmpLive, leaked, clientOpen, redisOpen, hasKey, scorerVars, appVars>>

\* _validate_resume_with_ai: True / False, or None when the call raised.
_validate_resume_with_ai(answer) ==
  IF answer = "yes" THEN "True" ELSE IF answer = "error" THEN "None" ELSE "False"

\* The double-check from 200 characters on: ">= 200" in place of "> 200".
LooksAsksAIFrom200(d, key) ==
  /\ d.textLen >= 50
  /\ key
  /\ \/ d.count < 2 /\ d.basic /\ d.count >= 1
     \/ d.count >= 2 /\ d.textLen >= 200

\* _looks_like_resume asks the AI in these cases.
LooksAsksAI(d, key) ==
  /\ d.textLen >= 50
  /\ key
  /\ \/ d.count < 2 /\ d.basic /\ d.count >= 1
     \/ d.count >= 2 /\ d.textLen > 200

\* _looks_like_resume without the fallback's "and critical_fields_count >= 1"
\* and with the rule "critical_fields_count < 1".
LooksWithOneField(d, key, answer) ==
  IF d.textLen < 50 THEN FALSE ELSE d.count >= 1

\* _looks_like_resume; answer is the AI's answer where it is asked.
_looks_like_resume(d, key, answer) ==
  LET ai_result == _validate_resume_with_ai(answer)
  IN IF d.textLen < 50 THEN FALSE
     ELSE IF d.count < 2
       THEN IF d.basic /\ d.count >= 1
              THEN IF key /\ ai_result # "None" THEN ai_result = "True" ELSE FALSE
              ELSE FALSE
       ELSE IF key /\ d.textLen > 200 /\ ai_result # "None"
              THEN ai_result = "True"
              ELSE TRUE

\* Lines 790-792.
PJ_Looks ==
  /\ pc = "pj_looks"
  /\ \E answer \in (IF LooksAsksAI(doc, hasKey) THEN AiAnswers ELSE {"error"}) :
        IF ~_looks_like_resume(doc, hasKey, answer)
             THEN /\ trace' = trace \o StageTokens("validate", LooksAsksAI(doc, hasKey)) \o <<"build">>
                  /\ pending' = InvalidPayload("invalid_resume_data")
                  /\ pc' = AfterRejection(job)
             ELSE /\ trace' = trace \o StageTokens("validate", LooksAsksAI(doc, hasKey))
                  /\ pc' = AfterValidation(job)
                  /\ UNCHANGED pending
  /\ UNCHANGED <<handled, queue_name, raw_job, job, attempt, exc, handler, doc, results, sent,
                 sleeps, logs, tmpLive, leaked, clientOpen, redisOpen, hasKey, scorerVars, appVars>>

\* _validate_job_title_match asks the AI in this case.
TitleAsksAI(j, d, key) == j.jobTitle = "given" /\ d.titles /\ key

\* A matcher that lets the resume through when the AI call raises.
TitleFailsOpen(j, d, key, answer) ==
  IF j.jobTitle # "given" THEN TRUE
  ELSE IF ~d.titles THEN FALSE
  ELSE IF ~key THEN FALSE
  ELSE answer \in {"yes", "error"}

\* _validate_job_title_match(...)["matched"]
_validate_job_title_match(j, d, key, answer) ==
  IF j.jobTitle # "given" THEN TRUE
  ELSE IF ~d.titles THEN FALSE
  ELSE IF ~key THEN FALSE
  ELSE answer = "yes"

\* Lines 733-749 and 797-813.
PJ_Title ==
  /\ pc = "pj_title"
  /\ \E answer \in (IF TitleAsksAI(job, doc, hasKey) THEN AiAnswers ELSE {"error"}) :
        IF ~_validate_job_title_match(job, doc, hasKey, answer)
             THEN /\ trace' = trace \o StageTokens("title", TitleAsksAI(job, doc, hasKey)) \o <<"build">>
                  /\ pending' = InvalidPayload("job_title_not_matched")
                  /\ pc' = AfterRejection(job)
             ELSE /\ trace' = trace \o StageTokens("title", TitleAsksAI(job, doc, hasKey))
                  /\ pc' = "pj_score"
                  /\ UNCHANGED pending
  /\ UNCHANGED <<handled, queue_name, raw_job, job, attempt, exc, handler, doc, results, sent,
                 sleeps, logs, tmpLive, leaked, clientOpen, redisOpen, hasKey, scorerVars, appVars>>

\* _send_result_payload builds this payload: rawJson only in parse mode.
ResultPayload(mode) ==
  [method |-> "send_ai_result", kind |-> "success", error |-> "none", rawJson |-> (mode = "parse")]

\* Python binds the keyword arguments of a call before the body runs: a
\* keyword the function does not declare is a TypeError.
CallAccepted(kwargs, params) == kwargs \subseteq params

\* Lines 751-772 and 815-836: score_by_criteria(...), then
\* _extract_candidate_info and _send_result_payload up to the send.
PJ_Score ==
  /\ pc = "pj_score"
  /\ IF ~CallAccepted(WorkerScoreKwargs, ScoreByCriteriaParams)
       THEN /\ trace' = Append(trace, "score")
            /\ Raise("TypeError")
            /\ UNCHANGED pending
       ELSE IF ~hasKey
         THEN /\ trace' = Append(trace, "score")
              /\ Raise("ValueError")
              /\ UNCHANGED pending
         ELSE \E wellFormed \in BOOLEAN :
                IF ~wellFormed
                  THEN /\ trace' = trace \o <<"score", "ai:score">>
                       /\ Raise("AIScoringError")
                       /\ UNCHANGED pending
                  ELSE /\ trace' = trace \o <<"score", "ai:score", "candidate_info", "build">>
                       /\ pending' = ResultPayload(job.mode)
                       /\ pc' = "send"
                       /\ UNCHANGED exc
  /\ UNCHANGED <<handled, queue_name, raw_job, job, attempt, handler, doc, results, sent,
                 sleeps, logs, tmpLive, leaked, clientOpen, redisOpen, hasKey, scorerVars, appVars>>

\* client.<method>(payload): a method the class does not define is an
\* AttributeError before anything is posted; send_ai_result issues one POST
\* and raises unless raise_for_status() accepts the status.
Send ==
  /\ pc = "send"
  /\ IF pending.method \notin CallbackClientMethods
       THEN /\ trace' = Append(trace, "send")
            /\ Raise("AttributeError")
            /\ UNCHANGED sent
       ELSE \E status \in Statuses :
              /\ trace' = trace \o <<"send", "post", status>>
              /\ IF PostRaises(status)
                   THEN /\ Raise(IF status = "timeout" THEN "RequestException" ELSE "HTTPError")
                        /\ UNCHANGED sent
                   ELSE /\ sent' = Append(sent, pending)
                        /\ FnReturn
  /\ UNCHANGED <<handled, queue_name, raw_job, job, attempt, handler, doc, pending, results,
                 sleeps, logs, tmpLive, leaked, clientOpen, redisOpen, hasKey, scorerVars, appVars>>

\* Lines 837-839: finally: if should_cleanup and file_path.exists(): unlink.
PJ_Finally ==
  /\ pc = "pj_finally"
  /\ tmpLive' = FALSE
  /\ handler' = "none"
  /\ pc' = "attempt_end"
  /\ UNCHANGED <<handled, queue_name, raw_job, job, attempt, exc, trace, doc, pending, results,
                 sent, sleeps, logs, leaked, clientOpen, redisOpen, hasKey, scorerVars, appVars>>

\* ------------------------------------------------- _process_comparison_job
ComparisonPayload(kind, error) ==
  [method |-> "send_comparison_result", kind |-> kind, error |-> error, rawJson |-> FALSE]

\* Lines 1015-1021.
CJ_Fields ==
  /\ pc = "cj_fields"
  /\ trace' = Append(trace, "validate_fields")
  /\ IF COMPARISON_FIELDS \ job.present # {}
       THEN Raise("ValueError")
       ELSE pc' = "cj_count" /\ UNCHANGED exc
  /\ UNCHANGED <<handled, queue_name, raw_job, job, attempt, handler, doc, pending, results,
                 sent, sleeps, logs, tmpLive, leaked, clientOpen, redisOpen, hasKey, scorerVars, appVars>>

MIN_CANDIDATES == 2
MAX_CANDIDATES == 5

\* The lower guard off by one: "< 1" in place of "< 2".
TooFewOffByOne(n) == n < MIN_CANDIDATES - 1

\* len(candidates) < 2
TooFew(n) == n < MIN_CANDIDATES

\* Lines 1038-1059: the candidate-count guards, then the try block is entered.
CJ_Count ==
  /\ pc = "cj_count"
  /\ IF TooFew(job.ncand)
       THEN /\ pending' = ComparisonPayload("cmp_error", "insufficient_candidates")
            /\ trace' = trace \o <<"count", "build">>
            /\ pc' = "send"
            /\ UNCHANGED handler
       ELSE IF job.ncand > MAX_CANDIDATES
         THEN /\ pending' = ComparisonPayload("cmp_error", "invalid_data")
              /\ trace' = trace \o <<"count", "build">>
              /\ pc' = "send"
              /\ UNCHANGED handler
         ELSE /\ handler' = "except"
              /\ trace' = Append(trace, "count")
              /\ pc' = "cj_compare"
              /\ UNCHANGED pending
  /\ UNCHANGED <<handled, queue_name, raw_job, job, attempt, exc, doc, results, sent, sleeps,
                 logs, tmpLive, leaked, clientOpen, redisOpen, hasKey, scorerVars, appVars>>

\* Lines 1061-1093: compare_candidates catches every exception itself and
\* returns status "error" (no key, failed call, empty text, bad JSON, bad
\* structure) or the analysis; the worker builds the matching payload.
CJ_Compare ==
  /\ pc = "cj_compare"
  /\ \E ok \in (IF hasKey THEN BOOLEAN ELSE {FALSE}) :
        /\ trace' = trace \o (IF ~hasKey THEN <<"compare", "build">>
                              ELSE IF ok THEN <<"compare", "ai:compare", "completed", "build">>
                              ELSE <<"compare", "ai:compare", "build">>)
        /\ pending' = IF ok THEN ComparisonPayload("cmp_success", "none")
                            ELSE ComparisonPayload("cmp_error", "processing_failed")
  /\ pc' = "send"
  /\ UNCHANGED <<handled, queue_name, raw_job, job, attempt, exc, handler, doc, results, sent,
                 sleeps, logs, tmpLive, leaked, clientOpen, redisOpen, hasKey, scorerVars, appVars>>

\* Lines 1102-1112: "except Exception" around the whole try block, the sends
\* included: log, build a processing_failed payload and send it.
CJ_Except ==
  /\ pc = "cj_except"
  /\ exc' = "none"
  /\ handler' = "none"
  /\ logs' = logs \cup {"comparison_error"}
  /\ pending' = ComparisonPayload("cmp_error", "processing_failed")
  /\ trace' = Append(trace, "build")
  /\ pc' = "send"
  /\ UNCHANGED <<handled, queue_name, raw_job, job, attempt, doc, results, sent, sleeps,
                 tmpLive, leaked, clientOpen, redisOpen, hasKey, scorerVars, appVars>>

\* ------------------------------------------------------------ specification
Next ==
  \/ Dequeue \/ DequeueFail \/ DequeueRetry \/ ParseStep \/ Dispatch
  \/ PJ_ValidateFields \/ PJ_ReqCheck \/ PJ_ParsedData \/ PJ_Download \/ PJ_Extract
  \/ PJ_Parse \/ PJ_Looks \/ PJ_Title \/ PJ_Score \/ Send \/ PJ_Finally
  \/ CJ_Fields \/ CJ_Count \/ CJ_Compare \/ CJ_Except
  \/ AttemptEnd \/ Sleep \/ LoopNext
  \/ Signal

Spec == Init /\ [][Next]_vars

TypeOK ==
  /\ pc \in {"blpop", "blpop_sleep", "parse_job", "dispatch", "pj_fields", "pj_reqcheck",
             "pj_parsed_data", "pj_download", "pj_extract", "pj_parse", "pj_looks", "pj_title",
             "pj_score", "send", "pj_finally", "cj_fields", "cj_count", "cj_compare",
             "cj_except", "attempt_end", "sleep", "loop_next", "exited", "crashed"}
  /\ handled \in 0..MaxJobs
  /\ attempt \in 0..MAX_RETRIES
  /\ handler \in {"none", "finally", "except"}

\* ------------------------------------------------------ score_by_criteria
\* Longest items list of an AI scoring response.
MaxItems == 2

IntId(n) == [t |-> "int", v |-> n]
StrId(n) == [t |-> "str", v |-> n]

MkItem(keys, cid, raw, score, matched) ==
  [keys |-> keys, criteriaId |-> cid, matched |-> matched, rawScore |-> raw, score |-> score,
   AINote |-> "str"]

ItemKeys(raw, score) ==
  ITEM_REQUIRED_FIELDS \cup (IF raw = NONE THEN {} ELSE {"rawScore"})
                       \cup (IF score = NONE THEN {} ELSE {"score"})

\* Items an AI response may hold: rawScore and the legacy score present or
\* absent, zero, inside and outside [0, 100]; ids as int or str, known or not;
\* null values; a required key missing.
AiItems ==
  {MkItem(ItemKeys(r, sc), IntId(1), r, sc, 1000) : r \in {NONE, 0, 3333, 12000}, sc \in {NONE, 0, 5000}}
  \cup {MkItem(ItemKeys(8000, NONE), c, 8000, NONE, 500) : c \in {StrId(1), IntId(9)}}
  \cup {MkItem(ItemKeys(r, NONE), IntId(2), r, NONE, 0) : r \in {9000, -500}}
  \cup {MkItem(ITEM_REQUIRED_FIELDS \cup {"rawScore", "score"}, IntId(2), NONE, NONE, 0)}
  \cup {MkItem({"criteriaId", "matched", "rawScore"}, IntId(1), 8000, NONE, 1000)}

RECURSIVE SeqsUpTo(_, _)
SeqsUpTo(S, n) ==
  IF n = 0 THEN {<<>>}
  ELSE LET shorter == SeqsUpTo(S, n - 1)
       IN shorter \cup {Append(q, x) : q \in shorter, x \in S}

MkResult(text, hasItems, isList, items) ==
  [text |-> text, hasItems |-> hasItems, itemsIsList |-> isList, items |-> items,
   AIExplanation |-> "dict", matchSkills |-> "list", missingSkills |-> "none",
   total_score |-> NONE]

\* What Gemini may answer to the scoring prompt.
AiResponses ==
  {MkResult("empty", FALSE, FALSE, <<>>), MkResult("badjson", FALSE, FALSE, <<>>),
   MkResult("json", FALSE, FALSE, <<>>), MkResult("json", TRUE, FALSE, <<>>)}
  \cup {MkResult("json", TRUE, TRUE, q) : q \in SeqsUpTo(AiItems, MaxItems)}

MkCriterion(cid, w) == [criteriaId |-> cid, weight |-> w]

\* Criteria lists of a caller: weights summing to 1, to less, to more (with an
\* id listed twice), an id given as a string, a weight left null, a negative
\* weight.
CriteriaLists ==
  {<<MkCriterion(IntId(1), 600), MkCriterion(IntId(2), 400)>>,
   <<MkCriterion(IntId(1), 335)>>,
   <<MkCriterion(IntId(1), 600), MkCriterion(IntId(1), 1000), MkCriterion(IntId(2), 700)>>,
   <<MkCriterion(StrId(1), 1000), MkCriterion(IntId(2), NONE)>>,
   <<MkCriterion(IntId(1), -500), MkCriterion(IntId(2), 100)>>}

\* The try block of score_by_criteria from the response text on:
\* _extract_gemini_response, _clean_ai_response,
\* _validate_ai_response_structure, _normalize_ai_response and the total.
score_by_criteria(response, criteria_list) ==
  IF response.text # "json" \/ _validate_ai_response_structure(response)
    THEN [raises |-> "AIScoringError", result |-> NoResult]
    ELSE LET result == _normalize_ai_response(response, criteria_list)
         IN [raises |-> "none",
             result |-> [result EXCEPT !.total_score = _calculate_weighted_total_score(result.items)]]

WorkerIdle ==
  /\ pc = "idle" /\ handled = 0
  /\ queue_name = JOB_QUEUE /\ raw_job = NoMessage /\ job = NoJob
  /\ attempt = 0 /\ exc = "none" /\ handler = "none"
  /\ trace = <<>> /\ doc = NoDoc /\ pending = NoPayload
  /\ results = <<>> /\ sent = <<>> /\ sleeps = <<>> /\ logs = {}
  /\ tmpLive = FALSE /\ leaked = FALSE
  /\ clientOpen = TRUE /\ redisOpen = TRUE
  /\ hasKey = TRUE
  /\ AppIdle

\* A direct call of score_by_criteria with a key configured: Gemini's answer
\* and the caller's criteria are the inputs.
ScorerInit ==
  /\ WorkerIdle
  /\ nIn \in AiResponses
  /\ nCriteria \in CriteriaLists
  /\ nOut = NoResult /\ nOut2 = NoResult
  /\ nPc = "called"

\* score_by_criteria returns the normalised result or raises AIScoringError.
ScoreOnce ==
  /\ nPc = "called"
  /\ LET r == score_by_criteria(nIn, nCriteria)
     IN IF r.raises # "none"
          THEN nPc' = "raised" /\ UNCHANGED nOut
          ELSE nPc' = "scored" /\ nOut' = r.result
  /\ UNCHANGED <<nIn, nCriteria, nOut2, workerVars, appVars>>

\* Normalisation and total applied to the result just returned, with the same
\* criteria.
ScoreAgain ==
  /\ nPc = "scored"
  /\ LET again == _normalize_ai_response(nOut, nCriteria)
     IN nOut2' = [again EXCEPT !.total_score = _calculate_weighted_total_score(again.items)]
  /\ nPc' = "renormalized"
  /\ UNCHANGED <<nIn, nCriteria, nOut, workerVars, appVars>>

ScorerNext == ScoreOnce \/ ScoreAgain

ScorerSpec == ScorerInit /\ [][ScorerNext]_vars

\* ------------------------------------------------------ compare_candidates
\* Longest candidates list of an AI comparison response.
MaxRanked == 3

DEFAULT_RANK == 999

MkRanked(keys, hasRec, rank) == [keys |-> keys, hasRecommendation |-> hasRec, rank |-> rank]

\* Candidates of an AI comparison response: ranks 1 to 3 given, the
\* recommendation left out, applicationId or analysis left out.
RankedCandidates ==
  {MkRanked({"applicationId", "analysis"}, TRUE, r) : r \in 1..3}
  \cup {MkRanked({"applicationId", "analysis"}, FALSE, NONE),
        MkRanked({"analysis"}, TRUE, 1),
        MkRanked({"applicationId"}, FALSE, NONE)}

MkComparison(text, isDict, hasCandidates, isList, cands) ==
  [text |-> text, isDict |-> isDict, hasCandidates |-> hasCandidates,
   candidatesIsList |-> isList, candidates |-> cands]

\* What Gemini may answer to the comparison prompt: an exception, no text,
\* text that is not JSON, JSON of the wrong shape, a candidates list.
ComparisonResponses ==
  {MkComparison(t, FALSE, FALSE, FALSE, <<>>) : t \in {"error", "empty", "badjson", "json"}}
  \cup {MkComparison("json", TRUE, FALSE, FALSE, <<>>), MkComparison("json", TRUE, TRUE, FALSE, <<>>)}
  \cup {MkComparison("json", TRUE, TRUE, TRUE, q) : q \in SeqsUpTo(RankedCandidates, MaxRanked)}

\* Arguments of a direct call: the job's number of candidates and api_key.
ComparisonCalls == [ncand : CandidateCounts \cup {0, 3}, api_key : BOOLEAN]

CompareError(error, aiCalled) ==
  [status |-> "error", error |-> error, aiCalled |-> aiCalled, candidates |-> <<>>]

\* Lines 316-324: a candidate without a recommendation gets rank 999.
WithDefaults(c) ==
  IF c.hasRecommendation THEN c
  ELSE [c EXCEPT !.hasRecommendation = TRUE, !.rank = DEFAULT_RANK]

\* The insertion moving left past equal ranks too.
InsertBeforeEqual(sorted, i, cands) ==
  LET smaller == {k \in 1..Len(sorted) : cands[sorted[k]].rank < cands[i].rank}
      n == Cardinality(smaller)
  IN SubSeq(sorted, 1, n) \o <<i>> \o SubSeq(sorted, n + 1, Len(sorted))

\* sorted(..., key=rank) as a list of indexes into the candidates: an index
\* is moved left past every index of a strictly greater rank.
RECURSIVE InsertByRank(_, _, _)
InsertByRank(sorted, i, cands) ==
  IF sorted = <<>> THEN <<i>>
  ELSE LET last == sorted[Len(sorted)]
       IN IF cands[last].rank > cands[i].rank
            THEN Append(InsertByRank(SubSeq(sorted, 1, Len(sorted) - 1), i, cands), last)
            ELSE Append(sorted, i)

RECURSIVE sorted_candidates(_, _)
sorted_candidates(cands, n) ==
  IF n = 0 THEN <<>> ELSE InsertByRank(sorted_candidates(cands, n - 1), n, cands)

\* Lines 327-335: when two ranks are equal, every candidate gets its position
\* in the sorted list as its rank; the list keeps the response's order.
RepairRanks(cands) ==
  LET ranks == {cands[i].rank : i \in 1..Len(cands)}
      order == sorted_candidates(cands, Len(cands))
  IN IF Len(cands) = Cardinality(ranks) THEN cands
     ELSE [i \in 1..Len(cands) |->
             [cands[i] EXCEPT !.rank = CHOOSE idx \in 1..Len(order) : order[idx] = i]]

\* compare_candidates: the count guards, get_model, the AI call, the parse
\* and the structure checks, each failure returned as status "error".
compare_candidates(job_data, response) ==
  IF TooFew(job_data.ncand) THEN CompareError("insufficient_candidates", FALSE)
  ELSE IF job_data.ncand > MAX_CANDIDATES THEN CompareError("invalid_data", FALSE)
  ELSE IF ~job_data.api_key THEN CompareError("processing_failed", FALSE)
  ELSE IF response.text # "json" THEN CompareError("processing_failed", TRUE)
  ELSE IF ~response.isDict \/ ~response.hasCandidates \/ ~response.candidatesIsList
    THEN CompareError("processing_failed", TRUE)
  ELSE IF \E i \in 1..Len(response.candidates) :
             {"applicationId", "analysis"} \ response.candidates[i].keys # {}
    THEN CompareError("processing_failed", TRUE)
  ELSE [status |-> "success", error |-> "none", aiCalled |-> TRUE,
        candidates |-> RepairRanks([i \in 1..Len(response.candidates) |->
                                      WithDefaults(response.candidates[i])])]

\* A direct call of compare_candidates: the job's candidate count, the key
\* and Gemini's answer are the inputs.
ComparatorInit ==
  /\ WorkerIdle
  /\ nIn \in ComparisonResponses
  /\ nCriteria \in ComparisonCalls
  /\ nOut = NoResult /\ nOut2 = NoResult
  /\ nPc = "called"

CompareOnce ==
  /\ nPc = "called"
  /\ nOut' = compare_candidates(nCriteria, nIn)
  /\ nPc' = "compared"
  /\ UNCHANGED <<nIn, nCriteria, nOut2, workerVars, appVars>>

ComparatorNext == CompareOnce

ComparatorSpec == ComparatorInit /\ [][ComparatorNext]_vars

\* ------------------------------------------------------------ ats_extractor
\* The defaults dict without its last entry.
DefaultsShort ==
  {"info", "education", "work_experience", "technical_skills", "certifications",
   "projects", "languages_and_skills", "summary"}

\* Keys of the defaults dict of _ensure_required_fields.
DEFAULT_KEYS ==
  {"info", "education", "work_experience", "technical_skills", "certifications",
   "projects", "languages_and_skills", "summary", "total_experience_years"}

\* Keys whose default value is None.
NULL_DEFAULTS == {"summary"}

INFO_KEYS == {"fullName", "email", "phone", "location", "linkedin", "portfolio"}
SKILLS_KEYS == {"programming_languages", "frameworks", "databases", "tools", "cloud", "other"}

\* A value that is a dict with these keys, or something that is not a dict.
DictOf(keys) == [isDict |-> TRUE, keys |-> keys]
NotDict == [isDict |-> FALSE, keys |-> {}]

\* The JSON object of a parser response: its top-level keys, the keys that
\* hold null, and the values of info and technical_skills.
MkParsed(keys, nulls, info, skills) ==
  [keys |-> keys, nulls |-> nulls, info |-> info, technical_skills |-> skills]

NoParsed == MkParsed({}, {}, NotDict, NotDict)

\* Values info / technical_skills may hold when the key holds a value.
InfoValues(keys, nulls) ==
  IF "info" \in keys \ nulls THEN {NotDict, DictOf({"fullName", "email"})}
  ELSE {NotDict}
SkillsValues(keys, nulls) ==
  IF "technical_skills" \in keys \ nulls THEN {DictOf({"tools"})} ELSE {NotDict}

ParsedWithKeys(keys) ==
  UNION {{MkParsed(keys, nulls, info, skills) :
            info \in InfoValues(keys, nulls), skills \in SkillsValues(keys, nulls)} :
         nulls \in SUBSET keys}

ParsedObjects == UNION {ParsedWithKeys(keys) : keys \in SUBSET DEFAULT_KEYS}

\* What Gemini may answer to the parsing prompt: an exception, no text, text
\* that is not JSON, JSON that is not an object, an object.
ParserResponses ==
  {[text |-> t, isDict |-> FALSE, parsed |-> NoParsed] : t \in {"error", "empty", "badjson", "json"}}
  \cup {[text |-> "json", isDict |-> TRUE, parsed |-> o] : o \in ParsedObjects}

\* Lines 192-217: a dict gets the sub-fields it lacks.
WithSubFields(value, sub_keys) ==
  IF value.isDict THEN DictOf(value.keys \cup sub_keys) ELSE value

\* _ensure_required_fields: a key that is absent or holds None gets its
\* default, then info and technical_skills get their sub-fields.
_ensure_required_fields(parsed) ==
  LET defaulted == {key \in DEFAULT_KEYS : key \notin parsed.keys \/ key \in parsed.nulls}
      info == IF "info" \in defaulted THEN DictOf({}) ELSE parsed.info
      skills == IF "technical_skills" \in defaulted THEN DictOf({}) ELSE parsed.technical_skills
  IN [keys |-> parsed.keys \cup defaulted,
      nulls |-> (parsed.nulls \ defaulted) \cup (defaulted \cap NULL_DEFAULTS),
      info |-> WithSubFields(info, INFO_KEYS),
      technical_skills |-> WithSubFields(skills, SKILLS_KEYS)]

\* ats_extractor: get_model outside the try block, then the call, the text,
\* json.loads and the defaults; every exception inside the try block becomes
\* ResumeParsingError.
ats_extractor(api_key, response) ==
  IF ~api_key THEN [raises |-> "ValueError", parsed |-> NoParsed]
  ELSE IF response.text # "json" \/ ~response.isDict
    THEN [raises |-> "ResumeParsingError", parsed |-> NoParsed]
    ELSE [raises |-> "none", parsed |-> _ensure_required_fields(response.parsed)]

\* A direct call of ats_extractor: the key and Gemini's answer are the inputs.
ParserInit ==
  /\ WorkerIdle
  /\ nIn \in ParserResponses
  /\ nCriteria \in [api_key : BOOLEAN]
  /\ nOut = NoResult /\ nOut2 = NoResult
  /\ nPc = "called"

ExtractOnce ==
  /\ nPc = "called"
  /\ nOut' = ats_extractor(nCriteria.api_key, nIn)
  /\ nPc' = "extracted"
  /\ UNCHANGED <<nIn, nCriteria, nOut2, workerVars, appVars>>

ParserNext == ExtractOnce

ParserSpec == ParserInit /\ [][ParserNext]_vars

\* ------------------------------------------------------ _looks_like_resume
\* Documents of a direct call: the length of the extracted text, how many of
\* experience / education / skills the parsed resume has, basic contact info.
ValidatorDocs == [textLen : TextLens, count : 0..3, basic : BOOLEAN, titles : {FALSE}]

\* A direct call of _looks_like_resume: the document, the key and the answer
\* Gemini gives if it is asked are the inputs.
ValidatorInit ==
  /\ WorkerIdle
  /\ nIn \in [doc : ValidatorDocs, answer : AiAnswers]
  /\ nCriteria \in [gemini_api_key : BOOLEAN]
  /\ nOut = NoResult /\ nOut2 = NoResult
  /\ nPc = "called"

ValidateOnce ==
  /\ nPc = "called"
  /\ nOut' = [result |-> _looks_like_resume(nIn.doc, nCriteria.gemini_api_key, nIn.answer),
              asked |-> LooksAsksAI(nIn.doc, nCriteria.gemini_api_key)]
  /\ nPc' = "validated"
  /\ UNCHANGED <<nIn, nCriteria, nOut2, workerVars, appVars>>

ValidatorNext == ValidateOnce

ValidatorSpec == ValidatorInit /\ [][ValidatorNext]_vars

\* --------------------------------------------------------------- get_model
\* Most get_model calls in one run.
MaxCalls == 3

\* API keys: "none" is None or the empty string.
ApiKeys == {"none", "k1", "k2"}

\* resolve_api_key: the explicit key, else GEMINI_API_KEY of the environment,
\* else the settings' key; "none" when it raises ValueError.
resolve_api_key(explicit_key, env_key, settings_key) ==
  IF explicit_key # "none" THEN explicit_key
  ELSE IF env_key # "none" THEN env_key
  ELSE settings_key

\* ensure_configured without the comparison with _CONFIGURED_KEY.
EnsureAlways(configured_key, resolved) == [configures |-> TRUE, key |-> resolved]

\* ensure_configured after the key is resolved: genai.configure is called
\* unless _CONFIGURED_KEY == resolved; _CONFIGURED_KEY is then resolved.
ensure_configured(configured_key, resolved) ==
  [configures |-> configured_key # resolved, key |-> resolved]

NoCall == [raises |-> "none", resolved |-> "none", configures |-> FALSE, before |-> "none"]

\* The module as imported: _CONFIGURED_KEY is None, no call made yet.
\* nOut is _CONFIGURED_KEY, nCriteria the number of calls made, nIn the keys
\* the last call saw, nOut2 what the last call did.
GeminiInit ==
  /\ WorkerIdle
  /\ nIn = [explicit_key |-> "none", env_key |-> "none", settings_key |-> "none"]
  /\ nCriteria = 0
  /\ nOut = "none"
  /\ nOut2 = NoCall
  /\ nPc = "gemini"

\* One call of get_model(api_key=...): the explicit key, the environment and
\* the settings are what they are at the time of the call.
GetModel ==
  /\ nPc = "gemini" /\ nCriteria < MaxCalls
  /\ \E explicit_key \in ApiKeys, env_key \in ApiKeys, settings_key \in ApiKeys :
        LET resolved == resolve_api_key(explicit_key, env_key, settings_key)
            r == ensure_configured(nOut, resolved)
        IN /\ nIn' = [explicit_key |-> explicit_key, env_key |-> env_key,
                      settings_key |-> settings_key]
           /\ IF resolved = "none"
                THEN /\ nOut2' = [raises |-> "ValueError", resolved |-> "none",
                                  configures |-> FALSE, before |-> nOut]
                     /\ UNCHANGED nOut
                ELSE /\ nOut2' = [raises |-> "none", resolved |-> resolved,
                                  configures |-> r.configures, before |-> nOut]
                     /\ nOut' = r.key
  /\ nCriteria' = nCriteria + 1
  /\ UNCHANGED <<nPc, workerVars, appVars>>

GeminiNext == GetModel

GeminiSpec == GeminiInit /\ [][GeminiNext]_vars

\* ------------------------------------------------------------------ app.py
\* Most files of one batch.
MaxFiles == 2
\* Most /batch_results requests.
MaxServed == 1

\* "with progress_lock:" is entered only when nobody holds the lock; a block
\* that neither blocks nor suspends inside is one step.
LockFree == progress_lock = "free"

\* batch_process, lines 198-225: n files uploaded, k of them with a file
\* name; the record is reset under the lock with total = len(files), the
\* files that have a name are saved and a background thread is started on
\* them.  A request may come while the thread of an earlier batch runs.
BatchProcess ==
  /\ LockFree
  /\ \E t \in Threads, n \in 1..MaxFiles :
       \E k \in 0..n :
        /\ bgPc[t] = "not_started"
        /\ \A u \in Threads : u < t => bgPc[u] # "not_started"
        /\ batch_progress' = [total |-> n, completed |-> 0, results |-> 0,
                              status |-> "processing"]
        /\ file_paths' = [file_paths EXCEPT ![t] = k]
        /\ bgPc' = [bgPc EXCEPT ![t] = IF k = 0 THEN "mark_completed" ELSE "set_current"]
  /\ UNCHANGED <<progress_lock, genPc, last_completed, served, workerVars, scorerVars>>

\* process_batch_cvs_background, lines 247-249: current_file under the lock.
BgSetCurrent ==
  /\ LockFree
  /\ \E t \in Threads :
        /\ bgPc[t] = "set_current"
        /\ bgPc' = [bgPc EXCEPT ![t] = "processing"]
  /\ UNCHANGED <<progress_lock, batch_progress, file_paths, genPc, last_completed, served,
                 workerVars, scorerVars>>

\* Lines 251-301: extract, parse and score one file, outside the lock.
\* Whether that works or raises, a result is built (lines 254-286, 293-301);
\* an exception raised in the handler itself (its print, line 294) leaves
\* the for loop for the outer handler.
BgProcessFile ==
  \E t \in Threads, handled_ok \in BOOLEAN :
     /\ bgPc[t] = "processing"
     /\ bgPc' = [bgPc EXCEPT ![t] = IF handled_ok THEN "add_result" ELSE "mark_error"]
     /\ UNCHANGED <<progress_lock, batch_progress, file_paths, genPc, last_completed, served,
                    workerVars, scorerVars>>

\* Lines 289-291 / 302-304: append the result and count it, under the lock;
\* then the next file, or the end of the for loop.
BgAddResult ==
  /\ LockFree
  /\ \E t \in Threads :
        /\ bgPc[t] = "add_result"
        /\ batch_progress' = [batch_progress EXCEPT !.results = @ + 1, !.completed = @ + 1]
        /\ file_paths' = [file_paths EXCEPT ![t] = @ - 1]
        /\ bgPc' = [bgPc EXCEPT ![t] = IF file_paths[t] > 1 THEN "set_current"
                                       ELSE "mark_completed"]
  /\ UNCHANGED <<progress_lock, genPc, last_completed, served, workerVars, scorerVars>>

\* Lines 307-309.
BgMarkCompleted ==
  /\ LockFree
  /\ \E t \in Threads :
        /\ bgPc[t] = "mark_completed"
        /\ batch_progress' = [batch_progress EXCEPT !.status = "completed"]
        /\ bgPc' = [bgPc EXCEPT ![t] = "finished"]
  /\ UNCHANGED <<progress_lock, file_paths, genPc, last_completed, served, workerVars,
                 scorerVars>>

\* Lines 311-316: the outer handler.
BgMarkError ==
  /\ LockFree
  /\ \E t \in Threads :
        /\ bgPc[t] = "mark_error"
        /\ batch_progress' = [batch_progress EXCEPT !.status = "error"]
        /\ bgPc' = [bgPc EXCEPT ![t] = "finished"]
  /\ UNCHANGED <<progress_lock, file_paths, genPc, last_completed, served, workerVars,
                 scorerVars>>

\* A client opens /batch_progress: generate() starts with last_completed = -1.
StreamConnect ==
  /\ genPc = "not_connected"
  /\ genPc' = "loop"
  /\ last_completed' = -1
  /\ UNCHANGED <<progress_lock, batch_progress, bgPc, file_paths, served, workerVars,
                 scorerVars>>

\* Line 331: an event is sent when the count changed or the status is
\* 'completed'.
SomethingChanged ==
  batch_progress.completed # last_completed \/ batch_progress.status = "completed"

\* generate(), lines 325-341: take the lock, read the record; when something
\* changed the generator yields the event inside the with block and is
\* suspended there, holding the lock; otherwise the block is left.
GenPoll ==
  /\ genPc = "loop" /\ LockFree
  /\ IF SomethingChanged
       THEN progress_lock' = "stream" /\ genPc' = "yielded"
       ELSE genPc' = "sleeping" /\ UNCHANGED progress_lock
  /\ UNCHANGED <<batch_progress, bgPc, file_paths, last_completed, served, workerVars,
                 scorerVars>>

\* The client takes the event and asks for the next one: the generator
\* resumes after the yield (lines 342-346), and leaves the with block.
ClientReads ==
  /\ genPc = "yielded"
  /\ last_completed' = batch_progress.completed
  /\ genPc' = IF batch_progress.status \in {"completed", "error"} THEN "closed" ELSE "sleeping"
  /\ progress_lock' = "free"
  /\ UNCHANGED <<batch_progress, bgPc, file_paths, served, workerVars, scorerVars>>

\* The client goes away: the server closes the generator, GeneratorExit is
\* raised at the yield and the with block releases the lock.
ClientDisconnects ==
  /\ genPc = "yielded"
  /\ genPc' = "closed"
  /\ progress_lock' = "free"
  /\ UNCHANGED <<batch_progress, bgPc, file_paths, last_completed, served, workerVars,
                 scorerVars>>

\* time.sleep(0.5), line 348, outside the with block.
GenSleep ==
  /\ genPc = "sleeping"
  /\ genPc' = "loop"
  /\ UNCHANGED <<progress_lock, batch_progress, bgPc, file_paths, last_completed, served,
                 workerVars, scorerVars>>

\* batch_results, lines 365-371: read the record under the lock.
BatchResults ==
  /\ served < MaxServed /\ LockFree
  /\ served' = served + 1
  /\ UNCHANGED <<progress_lock, batch_progress, bgPc, file_paths, genPc, last_completed,
                 workerVars, scorerVars>>

AppInit == WorkerIdle /\ ScorerIdle

BgStep == BgSetCurrent \/ BgProcessFile \/ BgAddResult \/ BgMarkCompleted \/ BgMarkError

GenStep == GenPoll \/ ClientReads \/ GenSleep

AppNext ==
  \/ BatchProcess \/ BgSetCurrent \/ BgProcessFile \/ BgAddResult \/ BgMarkCompleted
  \/ BgMarkError
  \/ StreamConnect \/ GenPoll \/ ClientReads \/ ClientDisconnects \/ GenSleep
  \/ BatchResults

AppSpec == AppInit /\ [][AppNext]_vars

\* ------------------------------------- _validate_job_requirements_with_ai
\* A direct run of lines 695-711 of _process_job: the job, whether a key is
\* configured and what Gemini answers when it is asked.
ReqCheckCalls == [job : ParseJobs \cup ScoreJobs, api_key : BOOLEAN, answer : AiAnswers]

ReqCheckInit ==
  /\ WorkerIdle
  /\ nIn \in ReqCheckCalls
  /\ nCriteria = <<>>
  /\ nOut = NoResult /\ nOut2 = NoResult
  /\ nPc = "called"

\* The validation and what _process_job does with its answer: the invalid
\* payload and the send that ends the attempt, or the next stage.
ReqCheckOnce ==
  /\ nPc = "called"
  /\ LET valid == _validate_job_requirements_with_ai(nIn.api_key, nIn.answer)
     IN nOut' = [valid |-> valid,
                 payload |-> IF valid THEN NoPayload ELSE InvalidPayload("invalid_job_data"),
                 next |-> IF ~valid THEN AfterRejection(nIn.job)
                          ELSE IF nIn.job.mode = "score" THEN "pj_parsed_data"
                          ELSE "pj_download"]
  /\ nPc' = "req_checked"
  /\ UNCHANGED <<nIn, nCriteria, nOut2, workerVars, appVars>>

ReqCheckNext == ReqCheckOnce

ReqCheckSpec == ReqCheckInit /\ [][ReqCheckNext]_vars

\* The batch interface with its threads running: a background thread keeps
\* going while it has a step to take, and so does the generator as long as
\* the client keeps reading; when batches are submitted and whether a client
\* connects or goes away is up to the users.
AppFairSpec == AppInit /\ [][AppNext]_vars /\ WF_vars(BgStep) /\ WF_vars(GenStep)

\* ------------------------------------------------ _validate_job_title_match
\* Arguments of a direct call: job_title absent or empty ("none"), only white
\* space ("blank") or given; titles found in the parsed resume or not.
TitleCalls ==
  [jobTitle : {"none", "blank", "given"}, titles : BOOLEAN, api_key : BOOLEAN,
   answer : AiAnswers]

\* A direct call of _validate_job_title_match.
TitleInit ==
  /\ WorkerIdle
  /\ nIn \in TitleCalls
  /\ nCriteria = <<>>
  /\ nOut = NoResult /\ nOut2 = NoResult
  /\ nPc = "called"

MatchOnce ==
  /\ nPc = "called"
  /\ LET j == [jobTitle |-> nIn.jobTitle]
         d == [titles |-> nIn.titles]
     IN nOut' = [matched |-> _validate_job_title_match(j, d, nIn.api_key, nIn.answer),
                 asked |-> TitleAsksAI(j, d, nIn.api_key)]
  /\ nPc' = "matched"
  /\ UNCHANGED <<nIn, nCriteria, nOut2, workerVars, appVars>>

TitleNext == MatchOnce

TitleSpec == TitleInit /\ [][TitleNext]_vars

\* -------------------------------------------------------- callback payloads
\* The keys of a payload that carry a score.
SCORE_FIELDS == {"totalResumeScore", "AIExplanation", "AIScoreDetail"}

\* A payload builder that attaches rawJson whatever the mode.
IncludesRawJsonInAnyMode(mode, parsed_resume) == mode \in {"parse", "score"}

\* Line 928: if mode == "parse" and parsed_resume is not None.
IncludesRawJson(mode, parsed_resume) == mode = "parse" /\ parsed_resume # "None"

\* Lines 895-899: AIExplanation is made a string; a value that is not a
\* string becomes str(value) when truthy and "" otherwise.
ExplanationText(v) == IF v \in {"absent", "falsy"} THEN "empty" ELSE "text"

\* _send_result_payload: the payload handed to client.send_ai_result.
_send_result_payload(scores, parsed_resume, mode) ==
  [keys |-> ID_FIELDS \cup SCORE_FIELDS \cup {"requireSkills", "candidateInfo"}
              \cup (IF IncludesRawJson(mode, parsed_resume) THEN {"rawJson"} ELSE {}),
   error |-> "none",
   AIExplanation |-> ExplanationText(scores.AIExplanation),
   AIScoreDetail |-> IF scores.items = "absent" THEN "empty" ELSE scores.items]

\* _send_invalid_resume_payload: the ids, the error type, and the reason
\* when one is given and truthy.
_send_invalid_resume_payload(error_type, reason) ==
  [keys |-> ID_FIELDS \cup {"error"} \cup (IF reason = "text" THEN {"reason"} ELSE {}),
   error |-> error_type,
   AIExplanation |-> "none",
   AIScoreDetail |-> "none"]

\* What score_by_criteria hands over: the keys _send_result_payload reads.
ScoresGiven ==
  [total_score : {"absent", "present"}, items : {"absent", "empty", "some"},
   AIExplanation : {"absent", "text", "falsy", "truthy"}]

\* The calls _process_job makes: line 771 (mode score, parsed_resume None),
\* line 835 (mode parse, the parsed resume), and lines 705, 745, 791 and 809
\* for the invalid payloads.
PayloadCalls ==
  {[fn |-> "result", mode |-> m, parsed_resume |-> IF m = "score" THEN "None" ELSE "dict",
    scores |-> sc] : m \in {"parse", "score"}, sc \in ScoresGiven}
  \cup
  {[fn |-> "invalid", error_type |-> e, reason |-> r] :
      e \in {"invalid_job_data", "invalid_resume_data", "job_title_not_matched"},
      r \in {"None", "empty", "text"}}

PayloadInit ==
  /\ WorkerIdle
  /\ nIn \in PayloadCalls
  /\ nCriteria = <<>>
  /\ nOut = NoResult /\ nOut2 = NoResult
  /\ nPc = "called"

BuildResult ==
  /\ nPc = "called" /\ nIn.fn = "result"
  /\ nOut' = _send_result_payload(nIn.scores, nIn.parsed_resume, nIn.mode)
  /\ nPc' = "built"
  /\ UNCHANGED <<nIn, nCriteria, nOut2, workerVars, appVars>>

BuildInvalid ==
  /\ nPc = "called" /\ nIn.fn = "invalid"
  /\ nOut' = _send_invalid_resume_payload(nIn.error_type, nIn.reason)
  /\ nPc' = "built"
  /\ UNCHANGED <<nIn, nCriteria, nOut2, workerVars, appVars>>

PayloadNext == BuildResult \/ BuildInvalid

PayloadSpec == PayloadInit /\ [][PayloadNext]_vars

\* The worker without signals: the runs in which SIGINT / SIGTERM is not
\* delivered.  The worker thread keeps running while it has a step to take;
\* whether Redis delivers a message or fails is up to the environment.
WorkerStep ==
  \/ DequeueRetry \/ ParseStep \/ Dispatch
  \/ PJ_ValidateFields \/ PJ_ReqCheck \/ PJ_ParsedData \/ PJ_Download \/ PJ_Extract
  \/ PJ_Parse \/ PJ_Looks \/ PJ_Title \/ PJ_Score \/ Send \/ PJ_Finally
  \/ CJ_Fields \/ CJ_Count \/ CJ_Compare \/ CJ_Except
  \/ AttemptEnd \/ Sleep \/ LoopNext

LiveNext == Dequeue \/ DequeueFail \/ WorkerStep

FairSpec == Init /\ [][LiveNext]_vars /\ WF_vars(WorkerStep)

\* ------------------------------------------------------------------ claims
Count(seq, tok) == Cardinality({i \in DOMAIN seq : seq[i] = tok})

\* The retry loop has been left for the current job.
JobDone == pc = "blpop" /\ results # <<>>
\* The current job is in the retry loop.
InFlight == attempt > 0

AllRaised == \A i \in DOMAIN results : results[i] = "raised"

\* C1: a job whose processing function raises on every attempt is attempted
\* exactly 3 times, then logged as given up and dropped with nothing delivered;
\* no job ever gets a 4th attempt.
C1_RetryCeiling ==
  /\ Len(results) <= 3
  /\ attempt <= 3
  /\ (JobDone /\ AllRaised) =>
        /\ Len(results) = 3
        /\ "giving_up" \in logs
        /\ sent = <<>>

C1_Witness == JobDone /\ AllRaised /\ Len(results) = 3 /\ "giving_up" \in logs

\* C2: a job that raises twice and then succeeds makes exactly three attempts
\* (two backoff sleeps), is delivered exactly once, and the loop is left right
\* after the successful attempt: a "returned" attempt is always the last one.
C2_RaiseTwiceThenDeliver ==
  /\ \A i \in DOMAIN results : (results[i] = "returned") => (i = Len(results) /\ attempt = 0)
  /\ (Len(results) = 3 /\ results[3] = "returned") =>
        /\ Len(sent) = 1
        /\ Len(sleeps) = 2
        /\ pc \in {"blpop", "blpop_sleep", "exited"}

C2_Witness ==
  /\ JobDone
  /\ results = <<"raised", "raised", "returned">>
  /\ Len(sent) = 1

\* The two terminal outcomes of a job, exactly one of them.
Delivered == sent # <<>> /\ "giving_up" \notin logs
DroppedWithLog == sent = <<>> /\ "giving_up" \in logs /\ Len(results) = 3

\* C3: every job that enters the retry loop leaves it after finitely many
\* steps, and when it has left, either a payload was sent or the retries were
\* exhausted and the drop was logged, never both and never neither.
C3_JobTerminates ==
  /\ [](JobDone => (Delivered \/ DroppedWithLog))
  /\ [](Len(results) <= 3)
  /\ (InFlight ~> JobDone)

C3_Witness == JobDone /\ DroppedWithLog /\ handled = 2

\* A resume job with an input error: a key required for its mode is missing,
\* or requirements / criteria are missing or empty.
InputErrorJob ==
  /\ queue_name = JOB_QUEUE
  /\ InFlight
  /\ \/ (IF job.mode = "score" THEN {"parsedData"} ELSE {"fileUrl"}) \ job.present # {}
     \/ ID_FIELDS \ job.present # {}
     \/ {"requirements", "criteria"} \ job.present # {}
     \/ job.requirements = "empty"
     \/ job.criteria = "empty"

\* C4 as claimed: a job with an input error is attempted once and never
\* retried (no second attempt, no backoff sleep), and nothing is sent for it.
C4_InputErrorNotRetried ==
  InputErrorJob => (attempt = 1 /\ sleeps = <<>> /\ sent = <<>> /\ Count(trace, "send") = 0)

\* The bytes of the current message are not valid UTF-8 JSON.
InvalidBytes == handled > 0 /\ (~raw_job.utf8 \/ raw_job.json = "invalid")

\* C5: a message that is not valid UTF-8 JSON is logged and dropped: no
\* attempt, no stage, no send, no sleep; the loop goes straight back to blpop.
C5_InvalidPayloadDropped ==
  InvalidBytes =>
    /\ attempt = 0 /\ results = <<>> /\ trace = <<>>
    /\ sent = <<>> /\ sleeps = <<>>
    /\ pc \in {"parse_job", "blpop", "blpop_sleep", "exited"}
    /\ (pc \in {"blpop", "blpop_sleep"} => "dropping_invalid" \in logs)

C5_Witness ==
  /\ InvalidBytes /\ raw_job.utf8
  /\ pc = "blpop" /\ "dropping_invalid" \in logs

\* The current attempt of a resume job ended in a domain rejection: an
\* error/invalid payload was built.
RejectedAttempt == queue_name = JOB_QUEUE /\ pending.kind = "error"

\* The stage that ran right before the payload was built.
RejectingStage ==
  LET k == CHOOSE i \in DOMAIN trace : trace[i] = "build"
  IN IF trace[k - 1] \in {"ai:req_check", "ai:validate", "ai:title"} THEN trace[k - 2]
     ELSE trace[k - 1]

ExpectedError(stage) ==
  CASE stage = "req_check" -> "invalid_job_data"
    [] stage = "validate" -> "invalid_resume_data"
    [] stage = "title" -> "job_title_not_matched"
    [] OTHER -> "none"

AfterSendPcs == {"pj_finally", "attempt_end", "sleep", "loop_next", "blpop", "blpop_sleep"}

\* C6: a domain rejection builds one error payload with the code of the stage
\* that rejected, never runs the scorer in that attempt, sends the payload
\* with exactly one POST, and when the send returns the attempt returns
\* normally and is the job's last.
C6_DomainRejection ==
  RejectedAttempt =>
    /\ Count(trace, "build") = 1
    /\ pending.error = ExpectedError(RejectingStage)
    /\ Count(trace, "score") = 0
    /\ Count(trace, "send") <= 1 /\ Count(trace, "post") <= 1
    /\ (pc \in AfterSendPcs => (Count(trace, "send") = 1 /\ Count(trace, "post") = 1))
    /\ (sent # <<>> =>
          /\ sent = <<pending>>
          /\ exc \in {"none", "SystemExit"}
          /\ pc \in {"pj_finally", "attempt_end", "blpop", "blpop_sleep", "exited"}
          /\ (pc \in {"blpop", "blpop_sleep"} => results[Len(results)] = "returned"))

C6_Witness ==
  /\ JobDone /\ RejectedAttempt
  /\ sent = <<pending>> /\ pending.error = "job_title_not_matched"
  /\ Len(results) = 1

\* A parse or score job whose fields are all in order, with an API key set.
WellFormedResumeJob ==
  /\ queue_name = JOB_QUEUE /\ InFlight /\ hasKey
  /\ job \in ParseJobs \cup {j \in ScoreJobs : j.parsedData = "ok"}

\* Exceptions that stand for a failed stage: download, extraction, parsing,
\* a malformed scoring response, a failed callback.
StageFailures == {"RequestException", "FileNotFoundError", "ExtractionError",
                  "ResumeParsingError", "AIScoringError", "HTTPError"}

\* C7 as claimed: when no stage of the first attempt of a well-formed parse or
\* score job fails or rejects, the attempt returns normally with exactly one
\* success payload delivered.
C7_SuccessOnFirstAttempt ==
  (/\ WellFormedResumeJob /\ attempt = 1 /\ pc = "attempt_end"
   /\ exc \notin StageFailures /\ pending.kind # "error")
  => (exc = "none" /\ Len(sent) = 1 /\ sent[1].kind = "success")

\* C8 as claimed: in one attempt at most one payload is built, at most one
\* send is made and at most one POST is issued, for both kinds of job.
C8_OneSendPerAttempt ==
  /\ Count(trace, "post") <= 1
  /\ Count(trace, "build") <= 1
  /\ Count(trace, "send") <= 1

\* The caller's weight of criterion c: 0 when c is not listed or its weight is
\* null (the last entry counts when an id is listed twice).
ExpectedWeight(c) ==
  LET idx == {i \in DOMAIN nCriteria : nCriteria[i].criteriaId.v = c}
  IN IF idx = {} THEN 0
     ELSE LET k == CHOOSE i \in idx : \A j \in idx : j <= i
          IN IF nCriteria[k].weight = NONE THEN 0 ELSE nCriteria[k].weight

Clamp(r) == IF r < 0 THEN 0 ELSE IF r > 10000 THEN 10000 ELSE r

\* C9 as claimed: every item that carries rawScore = r gets
\* score = round(clamp(r, 0, 100) * w, 2), r = 0 included, with or without a
\* legacy score next to it.
C9_WeightAppliedOnce ==
  nPc \in {"scored", "renormalized"} =>
    \A i \in DOMAIN nIn.items :
      nIn.items[i].rawScore # NONE =>
        nOut.items[i].score =
          RoundHalfEven(Clamp(nIn.items[i].rawScore) * ExpectedWeight(nIn.items[i].criteriaId.v), 1000)

\* C10: normalising a returned result again with the same criteria changes
\* nothing: same items, same per-item score, same total.
C10_NormalizeIdempotent ==
  nPc = "renormalized" =>
    /\ Len(nOut2.items) = Len(nOut.items)
    /\ \A i \in DOMAIN nOut.items :
          /\ nOut2.items[i].score = nOut.items[i].score
          /\ nOut2.items[i] = nOut.items[i]
    /\ nOut2.total_score = nOut.total_score

C10_Witness ==
  /\ nPc = "renormalized"
  /\ Len(nOut.items) = 2
  /\ \E i \in DOMAIN nOut.items :
        nOut.items[i].score > 0 /\ nOut.items[i].score < nOut.items[i].rawScore

\* ---------------------------------------------------------------- C11
Returned == nPc \in {"scored", "renormalized"}

\* The items' weighted scores added up by index.
RECURSIVE WeightedSum(_, _)
WeightedSum(items, n) == IF n = 0 THEN 0 ELSE WeightedSum(items, n - 1) + items[n].score

SumOfScores(result) == WeightedSum(result.items, Len(result.items))

\* Weights 0.6 and 0.4 for criteria 1 and 2, raw scores 80 and 90.
EightyNinety ==
  /\ nCriteria = <<MkCriterion(IntId(1), 600), MkCriterion(IntId(2), 400)>>
  /\ Len(nIn.items) = 2
  /\ nIn.items[1].criteriaId.v = 1 /\ nIn.items[1].rawScore = 8000
  /\ nIn.items[2].criteriaId.v = 2 /\ nIn.items[2].rawScore = 9000

\* C11: every result score_by_criteria returns has total_score equal to the
\* sum of its items' weighted scores clamped to [0, 100], so the total lies in
\* [0, 100] whatever the caller's weights and the AI's raw scores are; weights
\* 0.6 / 0.4 with raw scores 80 / 90 give 84.0.
C11_TotalIsClampedSum ==
  Returned =>
    /\ nOut.total_score = (IF SumOfScores(nOut) < 0 THEN 0
                           ELSE IF SumOfScores(nOut) > 10000 THEN 10000
                           ELSE SumOfScores(nOut))
    /\ nOut.total_score \in 0..10000
    /\ (EightyNinety => nOut.total_score = 8400)

\* The sum of the weighted scores exceeds 100 and the total is 100.
C11_Witness ==
  /\ Returned
  /\ SumOfScores(nOut) > 10000
  /\ nOut.total_score = 10000

\* The example of the claim, and a sum below 0.
C11_ExampleReached == Returned /\ EightyNinety /\ nOut.total_score = 8400
C11_NegativeReached == Returned /\ SumOfScores(nOut) < 0 /\ nOut.total_score = 0

\* ---------------------------------------------------------------- C12
\* C12: an attempt that reaches scoring with a key configured has two
\* outcomes, by the AI's response: a malformed response raises AIScoringError
\* after the AI call, with no payload built or sent in that attempt (and the
\* job is retried), a well-formed one goes on to build the result payload.
C12_MalformedScoringRetried ==
  (pc = "attempt_end" /\ hasKey /\ Count(trace, "score") > 0) =>
     \/ /\ exc = "AIScoringError"
        /\ Count(trace, "ai:score") = 1
        /\ Count(trace, "build") = 0 /\ Count(trace, "send") = 0
     \/ /\ Count(trace, "ai:score") = 1
        /\ Count(trace, "build") = 1 /\ Count(trace, "send") = 1

\* ---------------------------------------------------------------- C13
\* A comparison job with every required field and 2 to 5 candidates.
WellFormedComparisonJob ==
  /\ queue_name = COMPARISON_QUEUE
  /\ COMPARISON_FIELDS \subseteq job.present
  /\ job.ncand \in MIN_CANDIDATES..MAX_CANDIDATES

\* C13: when the first attempt of a well-formed comparison job got a
\* well-formed analysis from the AI, that attempt built one payload, sent it
\* once with one POST, and if the POST was accepted the success payload is
\* the one delivery of the job.
C13_ComparisonDelivered ==
  (pc = "attempt_end" /\ attempt = 1 /\ WellFormedComparisonJob
     /\ Count(trace, "completed") = 1) =>
    /\ Count(trace, "build") = 1
    /\ Count(trace, "send") = 1
    /\ Count(trace, "post") = 1
    /\ (exc = "none" => sent = <<ComparisonPayload("cmp_success", "none")>>)

\* ---------------------------------------------------------------- C14
Compared == nPc = "compared"

\* C14: compare_candidates called with fewer than 2 candidates returns the
\* error insufficient_candidates, called with more than 5 it returns
\* invalid_data, and in both cases Gemini is not asked.
C14_CountGuard ==
  Compared =>
    /\ (nCriteria.ncand < 2 =>
          nOut.status = "error" /\ nOut.error = "insufficient_candidates" /\ ~nOut.aiCalled)
    /\ (nCriteria.ncand > 5 =>
          nOut.status = "error" /\ nOut.error = "invalid_data" /\ ~nOut.aiCalled)

\* One candidate, a key configured and an answer that would have been
\* accepted: the call returned insufficient_candidates.
C14_Witness ==
  /\ Compared
  /\ nCriteria.ncand = 1 /\ nCriteria.api_key
  /\ nIn.text = "json" /\ Len(nIn.candidates) = 2
  /\ nOut.error = "insufficient_candidates" /\ ~nOut.aiCalled

C14_SixReached ==
  /\ Compared
  /\ nCriteria.ncand = 6 /\ nCriteria.api_key
  /\ nOut.error = "invalid_data" /\ ~nOut.aiCalled

\* ---------------------------------------------------------------- C15
\* The call returned an analysis whose response had two equal ranks (a
\* candidate without a recommendation counts with the default rank).
OriginalRank(i) == WithDefaults(nIn.candidates[i]).rank

DuplicateRanks ==
  /\ Compared /\ nOut.status = "success"
  /\ \E i, j \in 1..Len(nIn.candidates) : i # j /\ OriginalRank(i) = OriginalRank(j)

\* C15: after the repair of a response with a shared rank, the N candidates
\* hold exactly the ranks 1..N, each once, a candidate of smaller original
\* rank has the smaller new rank, and candidates of equal original rank are
\* ranked in the order of the response.
C15_RankRepair ==
  DuplicateRanks =>
    LET N == Len(nOut.candidates)
    IN /\ N = Len(nIn.candidates)
       /\ {nOut.candidates[i].rank : i \in 1..N} = 1..N
       /\ \A i, j \in 1..N :
             /\ (i # j => nOut.candidates[i].rank # nOut.candidates[j].rank)
             /\ (OriginalRank(i) < OriginalRank(j)
                   => nOut.candidates[i].rank < nOut.candidates[j].rank)
             /\ (OriginalRank(i) = OriginalRank(j) /\ i < j
                   => nOut.candidates[i].rank < nOut.candidates[j].rank)

\* Three candidates ranked 2, 1, 2 by the AI come out ranked 2, 1, 3.
C15_Witness ==
  /\ DuplicateRanks
  /\ Len(nIn.candidates) = 3
  /\ OriginalRank(1) = 2 /\ OriginalRank(2) = 1 /\ OriginalRank(3) = 2
  /\ nOut.candidates[1].rank = 2 /\ nOut.candidates[2].rank = 1 /\ nOut.candidates[3].rank = 3

\* ---------------------------------------------------------------- C16
Extracted == nPc = "extracted"

\* C16: when the AI's parsing output is a JSON object, whatever top-level
\* keys it lacks or holds null for, ats_extractor either raises a parsing
\* error or returns a record with all nine keys.
C16_SchemaComplete ==
  (Extracted /\ nCriteria.api_key /\ nIn.text = "json" /\ nIn.isDict) =>
    \/ nOut.raises = "ResumeParsingError"
    \/ /\ nOut.raises = "none"
       /\ {"info", "education", "work_experience", "technical_skills", "certifications",
           "projects", "languages_and_skills", "summary", "total_experience_years"}
            \subseteq nOut.parsed.keys

\* An object without total_experience_years, with education null and only
\* summary given, came back complete.
C16_Witness ==
  /\ Extracted /\ nCriteria.api_key /\ nIn.text = "json" /\ nIn.isDict
  /\ nIn.parsed.keys = {"summary", "education"}
  /\ nIn.parsed.nulls = {"education"}
  /\ nOut.raises = "none"
  /\ "total_experience_years" \in nOut.parsed.keys
  /\ "education" \notin nOut.parsed.nulls

\* ---------------------------------------------------------------- C17
\* _looks_like_resume returned for a document with exactly two of the three
\* fields, no contact info and at least 50 characters of text.
TwoFieldsNoContact ==
  /\ nPc = "validated"
  /\ nIn.doc.count = 2 /\ ~nIn.doc.basic /\ nIn.doc.textLen >= 50

C17_LongTextReached ==
  /\ TwoFieldsNoContact
  /\ nCriteria.gemini_api_key /\ nIn.doc.textLen = 201 /\ nIn.answer = "no"
  /\ ~nOut.result /\ nOut.asked

\* ---------------------------------------------------------------- C18
\* C18: a document with at most one of the three fields and no basic contact
\* info is rejected without any AI call, and so is every document whose text
\* has fewer than 50 characters, whatever was parsed from it.
C18_RejectedWithoutAI ==
  nPc = "validated" =>
    /\ (nIn.doc.count <= 1 /\ ~nIn.doc.basic => ~nOut.result /\ ~nOut.asked)
    /\ (nIn.doc.textLen < 50 => ~nOut.result /\ ~nOut.asked)

\* One field, no contact info, a long text and a key whose AI would say yes:
\* rejected, the AI not asked.
C18_Witness ==
  /\ nPc = "validated"
  /\ nIn.doc.count = 1 /\ ~nIn.doc.basic /\ nIn.doc.textLen = 201
  /\ nCriteria.gemini_api_key /\ nIn.answer = "yes"
  /\ ~nOut.result /\ ~nOut.asked

\* 49 characters with three fields and contact info: rejected.
C18_ShortTextReached ==
  /\ nPc = "validated"
  /\ nIn.doc.textLen = 49 /\ nIn.doc.count = 3 /\ nIn.doc.basic
  /\ nCriteria.gemini_api_key
  /\ ~nOut.result /\ ~nOut.asked

\* ---------------------------------------------------------------- C19
\* C19: when an attempt of a job whose fileUrl is an HTTP(S) URL ends, no
\* temporary file created for the job exists any more, whatever the outcome
\* of the attempt was, a failed download included.
C19_NoTempFileRemains ==
  (pc = "attempt_end" /\ queue_name = JOB_QUEUE /\ job.fileUrl = "url") =>
    (~tmpLive /\ ~leaked)

\* ---------------------------------------------------------------- C20
\* The callback client has just answered a send that reached the network,
\* and the attempt has not been closed yet.
SendAnswered ==
  /\ pc \in {"pj_finally", "attempt_end"}
  /\ Len(trace) > 0 /\ trace[Len(trace)] \in Statuses

\* C20: a send issues exactly one POST, raises when the response status is
\* not 2xx (or no response came) and returns normally when it is 2xx.
C20_RaisesUnless2xx ==
  SendAnswered =>
    /\ Count(trace, "post") = Count(trace, "send")
    /\ (trace[Len(trace)] \in {"200", "2xx"} <=> exc = "none")

\* ---------------------------------------------------------------- C21
\* The message popped last was logged and dropped before the retry loop.
DroppedInvalid == results = <<>> /\ "dropping_invalid" \in logs

\* C21: the worker handles one job at a time: while a job is in the retry
\* loop the thread is not at blpop, and a message is popped only when no job
\* is in flight and the message before it (if any) was dropped as invalid,
\* delivered, or given up after its retries and sleeps.
C21_OneJobAtATime ==
  /\ [](InFlight => pc \notin {"blpop", "blpop_sleep", "parse_job"})
  /\ [][(handled' # handled) =>
          /\ pc = "blpop" /\ ~InFlight /\ exc = "none"
          /\ (handled = 0 \/ DroppedInvalid \/ Delivered \/ DroppedWithLog)]_vars

\* The second job is in its retry loop, after a failed first attempt.
C21_Witness == handled = 2 /\ InFlight /\ attempt = 2 /\ Len(sleeps) = 1

\* ---------------------------------------------------------------- C22
Exited == pc = "exited"

\* C22: a signal is accepted in every state of the running worker; the
\* handler closes the callback client and the Redis connection and the
\* process exits in the same step (the retry wrapper does not catch the
\* exit); after the exit nothing happens any more: no message is popped, no
\* attempt is started, nothing is sent.
C22_SignalExits ==
  /\ [](pc \notin {"exited", "crashed"} => ENABLED Signal)
  /\ [](Exited => (~clientOpen /\ ~redisOpen /\ exc = "SystemExit"))
  /\ [][(clientOpen /\ ~clientOpen') => (pc' = "exited" /\ ~redisOpen')]_vars
  /\ [][~Exited]_vars

\* The signal arrived while the worker slept between two attempts.
C22_Witness ==
  /\ Exited /\ ~clientOpen /\ ~redisOpen
  /\ attempt = 1 /\ results = <<"raised">> /\ sleeps = <<>>
  /\ "failed_attempt" \in logs

\* The signal arrived in the middle of a stage, and while blocked in blpop.
C22_MidStageReached == Exited /\ attempt = 1 /\ results = <<>> /\ trace # <<>>
C22_AtBlpopReached == Exited /\ handled = 0

\* ---------------------------------------------------------------- C23
STAGE_NAMES == {"extract", "parse", "validate", "title", "score", "candidate_info", "send"}
IsStage(t) == t \in STAGE_NAMES

\* The stages the attempt has started, in order.
Stages == SelectSeq(trace, IsStage)

\* The order of the stages of a parse-mode attempt that succeeds.
FullOrder(j) ==
  <<"extract", "parse", "validate">>
    \o (IF j.jobTitle # "none" THEN <<"title">> ELSE <<>>)
    \o <<"score", "candidate_info", "send">>

IsPrefix(a, b) == Len(a) <= Len(b) /\ a = SubSeq(b, 1, Len(a))

\* The order up to the rejecting stage, then the delivery of the invalid payload.
RejectionOrder(j, stage) ==
  LET full == FullOrder(j)
      k == CHOOSE i \in DOMAIN full : full[i] = stage
  IN SubSeq(full, 1, k) \o <<"send">>

\* A parse-mode attempt that got as far as extracting text has ended.
ParseAttemptEnded ==
  /\ pc = "attempt_end" /\ queue_name = JOB_QUEUE /\ job.mode = "parse"
  /\ Count(trace, "extract") > 0

\* Failures of a stage's collaborator: the file, Gemini, the missing key, the
\* backend.
STAGE_FAILURES ==
  {"ExtractionError", "ResumeParsingError", "ValueError", "AIScoringError", "HTTPError",
   "RequestException"}

\* The part of C23 about order: what ran is a prefix of the full order, or a
\* rejection followed directly by the delivery of the invalid payload.
C23_OrderKept ==
  ParseAttemptEnded =>
    \/ /\ pending.error = "invalid_resume_data"
       /\ Stages = RejectionOrder(job, "validate")
    \/ /\ pending.error = "job_title_not_matched"
       /\ Stages = RejectionOrder(job, "title")
    \/ /\ pending.kind # "error"
       /\ IsPrefix(Stages, FullOrder(job))

\* C23: a parse-mode attempt runs extract, parse, validate, title-match (when
\* a jobTitle is given), score, extract-candidate-info and deliver in this
\* order; it stops early only where a stage's collaborator failed or where
\* validate / title-match rejected (then the invalid payload is delivered at
\* once); otherwise no stage is skipped.
C23_StageOrder ==
  ParseAttemptEnded =>
    \/ /\ pending.error = "invalid_resume_data"
       /\ Stages = RejectionOrder(job, "validate")
    \/ /\ pending.error = "job_title_not_matched"
       /\ Stages = RejectionOrder(job, "title")
    \/ /\ pending.kind # "error"
       /\ exc \in STAGE_FAILURES
       /\ IsPrefix(Stages, FullOrder(job))
    \/ /\ pending.kind # "error"
       /\ Stages = FullOrder(job)

\* ---------------------------------------------------------------- C24
\* get_model has been called and resolved a key.
CallResolved == nPc = "gemini" /\ nCriteria > 0 /\ nOut2.raises = "none"

\* C24: in any sequence of get_model calls, a call configures the provider
\* exactly when the key it resolved differs from the key configured before
\* the call (the same key again configures nothing), and after the call the
\* cached key is the key the call resolved.
C24_ConfigureIdempotent ==
  /\ CallResolved =>
       /\ nOut = nOut2.resolved
       /\ (nOut2.configures <=> nOut2.before # nOut2.resolved)
  /\ (nPc = "gemini" /\ nCriteria > 0 /\ nOut2.raises # "none") =>
       (~nOut2.configures /\ nOut = nOut2.before)

\* A later call resolved the key already configured and configured nothing.
C24_Witness ==
  /\ CallResolved /\ nCriteria >= 2
  /\ nOut2.before = "k1" /\ nOut2.resolved = "k1" /\ ~nOut2.configures

\* A later call resolved another key and configured it.
C24_KeyChangedReached ==
  /\ CallResolved /\ nCriteria >= 2
  /\ nOut2.before = "k1" /\ nOut2.resolved = "k2" /\ nOut2.configures /\ nOut = "k2"

\* ---------------------------------------------------------------- C25
\* The thread is inside a blocking or suspending operation: the background
\* thread in file / AI I/O, the generator suspended at its yield or asleep.
Suspended(t) ==
  CASE t = "bg" -> \E b \in Threads : bgPc[b] = "processing"
    [] t = "stream" -> genPc \in {"yielded", "sleeping"}
    [] OTHER -> FALSE

\* C25: the progress lock is never held by a thread that is blocked or
\* suspended (sleep, file or AI I/O, an event handed to the client), so a
\* thread that needs the lock is never kept waiting by such a thread.
C25_LockNotHeldWhileSuspended ==
  \A t \in {"bg", "stream"} : Suspended(t) => progress_lock # t

\* The background thread has a result to add and waits for the lock that
\* the suspended generator holds.
C25_BackgroundBlockedReached ==
  /\ \E b \in Threads : bgPc[b] = "add_result"
  /\ progress_lock = "stream" /\ genPc = "yielded"

\* ---------------------------------------------------------------- C26
TitleReturned == nPc = "matched"

\* C26: without a required title the matcher returns matched = true and asks
\* no AI; with a title but no titles in the resume it returns false and asks
\* no AI; when the AI call raises, answers nothing or answers text that is
\* not JSON it returns false; a match is never the result of a failure.
C26_TitleMatcherFailsClosed ==
  TitleReturned =>
    /\ (nIn.jobTitle # "given" => nOut.matched /\ ~nOut.asked)
    /\ (nIn.jobTitle = "given" /\ ~nIn.titles => ~nOut.matched /\ ~nOut.asked)
    /\ (nOut.asked /\ nIn.answer \in {"error", "empty", "badjson"} => ~nOut.matched)
    /\ (nOut.matched /\ nIn.jobTitle = "given" => nOut.asked /\ nIn.answer = "yes")

\* The AI call raised for a resume with titles: not matched.
C26_Witness ==
  /\ TitleReturned
  /\ nIn.jobTitle = "given" /\ nIn.titles /\ nIn.api_key /\ nIn.answer = "error"
  /\ nOut.asked /\ ~nOut.matched

C26_NoTitleReached ==
  TitleReturned /\ nIn.jobTitle = "none" /\ nIn.api_key /\ nOut.matched /\ ~nOut.asked

\* ---------------------------------------------------------------- C27
PayloadBuilt == nPc = "built"

\* C27: a success payload contains rawJson exactly when the job's mode is
\* parse, and an error payload contains neither rawJson nor a score field.
C27_RawJsonOnlyInParseMode ==
  PayloadBuilt =>
    /\ (nIn.fn = "result" => (("rawJson" \in nOut.keys) <=> (nIn.mode = "parse")))
    /\ (nIn.fn = "result" => nOut.error = "none" /\ SCORE_FIELDS \subseteq nOut.keys)
    /\ (nIn.fn = "invalid" => nOut.keys \cap (SCORE_FIELDS \cup {"rawJson"}) = {})

C27_Witness ==
  /\ PayloadBuilt /\ nIn.fn = "result" /\ nIn.mode = "score"
  /\ "rawJson" \notin nOut.keys /\ "totalResumeScore" \in nOut.keys

C27_ParseReached ==
  PayloadBuilt /\ nIn.fn = "result" /\ nIn.mode = "parse" /\ "rawJson" \in nOut.keys

C27_InvalidReached ==
  PayloadBuilt /\ nIn.fn = "invalid" /\ "reason" \in nOut.keys

\* ---------------------------------------------------------------- C28
\* The retry loop is done with the job it popped.
JobEnded == pc \in {"blpop", "blpop_sleep"} /\ results # <<>>

\* C28: the i-th sleep of a job lasts RETRY_DELAY_SECONDS * i seconds and
\* follows the failed attempt i, which is not the last one; attempt n starts
\* after n - 1 sleeps; a job that ended, by a success or by giving up, has
\* slept once less than it was attempted.
C28_LinearBackoff ==
  /\ \A i \in DOMAIN sleeps :
        /\ sleeps[i] = RETRY_DELAY_SECONDS * i
        /\ i < MAX_RETRIES
        /\ i <= Len(results) /\ results[i] = "raised"
  /\ (pc = "dispatch" /\ attempt >= 1 => Len(results) = attempt - 1 /\ Len(sleeps) = attempt - 1)
  /\ (JobEnded => Len(sleeps) = Len(results) - 1)

\* A job given up after three failures slept 5 s and then 10 s, and not after
\* the third.
C28_Witness ==
  JobEnded /\ results = <<"raised", "raised", "raised">> /\ sleeps = <<5, 10>>

\* A job that succeeded on its second attempt slept once, before it.
C28_SuccessReached ==
  JobEnded /\ results = <<"raised", "returned">> /\ sleeps = <<5>>

\* ---------------------------------------------------------------- C29
\* _looks_like_resume returned for a document with two or more of the three
\* fields, after asking the AI.
DoubleChecked == nPc = "validated" /\ nIn.doc.count >= 2 /\ nOut.asked

\* The AI sub-call failed: it raised, answered nothing, or answered text
\* that is not JSON.
AISubCallFailed == nIn.answer \in {"error", "empty", "badjson"}

\* C29: when the double-check is attempted and the AI sub-call fails, the
\* document is accepted on its rule-based pass.
C29_AIFailureAccepts == DoubleChecked /\ AISubCallFailed => nOut.result

\* A call that raises does fall back to the rule-based pass.
C29_RaiseAcceptedReached ==
  DoubleChecked /\ nIn.answer = "error" /\ nOut.result

\* An empty response rejects the document.
C29_EmptyRejectedReached ==
  DoubleChecked /\ nIn.answer = "empty" /\ ~nOut.result

\* ---------------------------------------------------------------- C30
\* An exception left worker_loop: the while loop is over.
LoopTerminated == pc = "crashed"

\* C30: no queue message terminates the worker loop; whatever the message
\* holds, the loop logs, drops or processes it and goes on to the next
\* dequeue.
C30_NoMessageStopsLoop == ~LoopTerminated

\* Bytes that are not UTF-8 or not JSON are logged and dropped, and the loop
\* is back at blpop.
C30_InvalidDroppedReached ==
  /\ pc = "blpop" /\ handled >= 1 /\ DroppedInvalid
  /\ _parse_job(raw_job).raises

\* A message holding a JSON array ends the loop with an AttributeError.
C30_ArrayCrashReached ==
  LoopTerminated /\ raw_job.json = "array" /\ exc = "AttributeError"

\* ---------------------------------------------------------------- C31
\* A callback send of the current job has returned without raising.
SendReturned == sent # <<>>

\* C31: for every job at most one callback send returns successfully; once
\* a send has returned, the processing function returns and the retry loop
\* breaks: nothing more is sent and no further attempt is started for the
\* job.
C31_AtMostOneSendReturns ==
  /\ [](Len(sent) <= 1)
  /\ [](SendReturned => pc \in {"pj_finally", "attempt_end", "blpop", "blpop_sleep", "exited"})
  /\ [][(SendReturned /\ handled' = handled) =>
          (sent' = sent /\ trace' = trace /\ attempt' \in {attempt, 0})]_vars

\* A job whose first send failed and whose second send was accepted: one
\* payload delivered, and the loop is back at blpop after two attempts.
C31_Witness ==
  /\ JobEnded /\ Len(sent) = 1
  /\ results = <<"raised", "returned">>
  /\ Count(trace, "post") = 1

\* ---------------------------------------------------------------- C32
\* C32: every successful comparison result for N returned candidates
\* carries ranks that are pairwise distinct and are exactly 1..N, also when
\* the AI's ranks were unique already.
C32_RanksAreOneToN ==
  (Compared /\ nOut.status = "success") =>
    LET N == Len(nOut.candidates)
    IN /\ \A i, j \in 1..N : i # j => nOut.candidates[i].rank # nOut.candidates[j].rank
       /\ {nOut.candidates[i].rank : i \in 1..N} = 1..N

\* Two candidates, one without a recommendation: returned with ranks 1 and
\* DEFAULT_RANK.
C32_DefaultRankReached ==
  /\ Compared /\ nOut.status = "success" /\ Len(nOut.candidates) = 2
  /\ nOut.candidates[1].rank = 1 /\ nOut.candidates[2].rank = DEFAULT_RANK

\* A response whose ranks were 1..N already is returned as it is.
C32_ContiguousReached ==
  /\ Compared /\ nOut.status = "success" /\ Len(nOut.candidates) = 2
  /\ OriginalRank(1) = 2 /\ OriginalRank(2) = 1
  /\ nOut.candidates[1].rank = 2 /\ nOut.candidates[2].rank = 1

\* ---------------------------------------------------------------- C33
\* The ids of the caller's criteria.
CallerIds == {nCriteria[i].criteriaId.v : i \in DOMAIN nCriteria}

\* The sum over the caller's criteria of 100 * weight, in hundredths.
RECURSIVE FullMarks(_)
FullMarks(ids) ==
  IF ids = {} THEN 0
  ELSE LET c == CHOOSE x \in ids : TRUE
       IN 10 * ExpectedWeight(c) + FullMarks(ids \ {c})

\* C33: a result of score_by_criteria never holds two items with the same
\* criteriaId, and its total_score never exceeds the clamped sum over the
\* caller's criteria of 100 * weight, also when the AI response repeats a
\* criteriaId.
C33_CriterionCountedOnce ==
  Returned =>
    /\ \A i, j \in DOMAIN nOut.items :
          i # j => nOut.items[i].criteriaId # nOut.items[j].criteriaId
    /\ nOut.total_score <= Clamp(FullMarks(CallerIds))

\* One criterion of weight 0.335 and a response holding two items for it
\* with raw score 80: both items are kept and the total is 53.6, above the
\* 33.5 the criterion can give.
C33_RepeatedIdReached ==
  /\ Returned
  /\ nCriteria = <<MkCriterion(IntId(1), 335)>>
  /\ Len(nOut.items) = 2
  /\ nOut.items[1].criteriaId = nOut.items[2].criteriaId
  /\ nOut.items[1].rawScore = 8000 /\ nOut.items[2].rawScore = 8000
  /\ nOut.total_score = 5360

\* ---------------------------------------------------------------- C34
\* C34: in every reachable state of the progress record completed <= total,
\* the number of stored results equals completed, and the status is
\* 'completed' only when completed equals total; also when a second batch
\* resets the record while the thread of an earlier batch is still running.
C34_ProgressConsistent ==
  /\ batch_progress.completed <= batch_progress.total
  /\ batch_progress.results = batch_progress.completed
  /\ (batch_progress.status = "completed" => batch_progress.completed = batch_progress.total)

\* The part that holds: a result is appended and counted in one block under
\* the lock, and a reset clears both.
C34_ResultsCounted == batch_progress.results = batch_progress.completed

\* One batch only, one of its two files without a file name: the thread
\* marks the batch completed with 1 of 2.
C34_BlankNameReached ==
  /\ bgPc[1] = "finished" /\ bgPc[2] = "not_started"
  /\ batch_progress = [total |-> 2, completed |-> 1, results |-> 1, status |-> "completed"]

\* A second batch of one file submitted while the thread of the first still
\* has files to add: more results than the record's total.
C34_OvercountReached ==
  /\ batch_progress.total = 1 /\ batch_progress.completed > 1
  /\ bgPc[2] # "not_started"

\* ---------------------------------------------------------------- C35
\* A client is connected to /batch_progress and its generator is running.
StreamOpen == genPc \in {"loop", "sleeping", "yielded"}

TerminalStatus == batch_progress.status \in {"completed", "error"}

\* C35: a progress stream that is open when the batch status is 'completed'
\* or 'error' eventually ends (with a final event carrying that status, or
\* because the client went away), even if the completed count has not
\* changed since the last event.
C35_StreamTerminates == (StreamOpen /\ TerminalStatus) ~> (genPc = "closed")

\* The part that holds: with status 'completed' the stream ends, unless a
\* new batch resets the status first.
C35_CompletedStreamEnds ==
  (StreamOpen /\ batch_progress.status = "completed")
     ~> (genPc = "closed" \/ batch_progress.status # "completed")

\* Status 'error', every background thread done, and a generator that has
\* already sent the current count: it polls and sleeps for ever.
C35_SilentErrorReached ==
  /\ genPc = "sleeping" /\ batch_progress.status = "error"
  /\ last_completed = batch_progress.completed
  /\ \A t \in Threads : bgPc[t] \in {"not_started", "finished"}
  /\ ~SomethingChanged

\* ---------------------------------------------------------------- C36
ReqChecked == nPc = "req_checked"

C36_EmptyAcceptedReached ==
  /\ ReqChecked /\ nIn.api_key /\ nIn.answer = "empty" /\ nIn.job.mode = "parse"
  /\ nOut.valid /\ nOut.next = "pj_download"

\* ---------------------------------------------------------------- C37
\* An attempt of a comparison job with 2 to 5 candidates has ended, and in
\* it compare_candidates was called and did not return an analysis.
AIComparisonFailed ==
  /\ pc = "attempt_end" /\ WellFormedComparisonJob
  /\ Count(trace, "compare") = 1 /\ Count(trace, "completed") = 0

\* The callback send itself failed: the backend refused the POST or did not
\* answer.
SEND_FAILURES == {"HTTPError", "RequestException"}

\* C37: a failed AI comparison is handled in the same attempt: an error
\* payload with error processing_failed is posted, and the attempt raises
\* into the retry loop only when the send itself failed.
C37_ComparisonFailureReported ==
  AIComparisonFailed =>
    /\ pending = ComparisonPayload("cmp_error", "processing_failed")
    /\ Count(trace, "post") >= 1
    /\ (exc # "none" => exc \in SEND_FAILURES)
    /\ (exc = "none" => sent = <<ComparisonPayload("cmp_error", "processing_failed")>>)

\* The failed comparison of a job with 2 candidates: two payloads built,
\* nothing posted, and the attempt raises AttributeError.
C37_NothingPostedReached ==
  /\ AIComparisonFailed /\ job.ncand = 2
  /\ Count(trace, "build") = 2 /\ Count(trace, "post") = 0
  /\ exc = "AttributeError"

\* Such a job is given up after three attempts with nothing delivered.
C37_RetriedReached ==
  /\ JobEnded /\ WellFormedComparisonJob
  /\ Count(trace, "compare") = 1 /\ Count(trace, "completed") = 0
  /\ results = <<"raised", "raised", "raised">> /\ sent = <<>>

====
